---- MODULE Spec2Model ----
(***************************************************************************)
(* Model of the multi-SUT automation controller                            *)
(* (src/gui_app_multi_sut.py, class SUTController) together with the part  *)
(* of the SUT agent (src/sut_service_installer/gemma_service_0.2.py) that  *)
(* the controller's stop path talks to.                                    *)
(*                                                                         *)
(* One controller is modelled.  The GUI thread calls start_automation and  *)
(* stop_automation; every accepted start spawns a worker thread that runs  *)
(* _run_automation.  Worker steps are atomic between two accesses to state *)
(* that the GUI thread also touches (stop_event, status, logger).          *)
(***************************************************************************)
EXTENDS Integers, Sequences, FiniteSets, TLC

\* ------------------------------------------------------------------ bounds
MaxJobs  == 2      \* worker threads (accepted starts) per behaviour
MaxGames == 2      \* games in a campaign
MaxRuns  == 2      \* run_count of a game / of the single-game job
MaxDelay == 1      \* inter-run and inter-game delay, in one-second ticks
MaxLaunches == 2   \* /launch requests sent to the agent per behaviour
MaxPolls == 2      \* polls of the process-detection loop before it times out
MaxProcs == 5      \* processes psutil can report to one lookup
MaxSuts == 2        \* SUT controllers of the GUI

Threads == 1..MaxJobs
Launches == 1..MaxLaunches

VARIABLES
    \* controller settings (SUTController.__init__, set by the GUI before a start)
    campaign_mode, campaign, config_path, game_path,
    run_count, run_delay, delay_between_games, continue_on_failure,
    \* controller state
    thread,              \* self.thread: 0 is None, else the newest worker
    stop_event,          \* self.stop_event
    status,              \* self.status
    current_run, total_runs,
    failed_games,        \* self.failed_games
    logger,              \* self.logger is not None
    current_process_id,  \* self.current_process_id is set
    kills,               \* kill requests sent since the current run began
    \* worker threads
    pc,                  \* position of each worker thread
    game_index, run_num, tick,   \* locals of each worker
    \* GUI thread
    gui_pc,              \* position inside stop_automation, or "idle"
    gui_ret,             \* <<operation, result>> of the last GUI call
    \* SUT agent: globals
    launch_cancel_flag,  \* launch_cancel_flag.is_set()
    game_lock,           \* 0 is free, else the /launch request that holds it
    current_game_process_name,   \* << >> is None
    game_process,        \* 0 is None, else the pid of the Popen handle
    pstate,              \* the SUT's processes: "none", "starting", "running", "exited"
    \* SUT agent: one /launch request handler per request
    lpc,                 \* position of each request
    path_kind,           \* data['path']: "none", "steam" or "direct"
    new_process_name, actual_process, foreground_confirmed, attempt, polls,
    lres,                \* the outcome returned to the caller
    cancel_at,           \* where the lock holder was when /cancel_launch last
                         \* came during its launch, "notified" if it was
                         \* blocked in a wait on the flag; "stale" while the
                         \* flag armed during an earlier holder's launch is
                         \* still set
    \* process matching
    find_name, find_table, find_result,
    \* observation
    runs,                \* what the current job did: <<game, run, outcome>>
    \* the logging module and the log side of every SUT's controller
    logging,
    \* the controllers of the GUI side by side, with the objects they refer to
    fleet

settings == <<campaign_mode, campaign, config_path, game_path, run_count,
              run_delay, delay_between_games, continue_on_failure>>
locals   == <<game_index, run_num, tick>>
agent_globals == <<game_lock, current_game_process_name, game_process, pstate>>
launch_locals == <<path_kind, new_process_name, actual_process,
                   foreground_confirmed, attempt, polls>>
agent    == <<agent_globals, lpc, launch_locals, lres, cancel_at>>
matching == <<find_name, find_table, find_result>>
aside    == <<logging, fleet>>
vars     == <<settings, thread, stop_event, status, current_run, total_runs,
              failed_games, logger, current_process_id, kills, pc, locals,
              gui_pc, gui_ret, launch_cancel_flag, runs, agent, matching, aside>>

\* ------------------------------------------------------------- data model
\* GameEntry(game_name, config_path, game_path, run_count, run_delay)
GameEntry(name, rc, rd) ==
    [game_name |-> name, config_path |-> "cfg", game_path |-> "game",
     run_count |-> rc, run_delay |-> rd]

\* the run counts and the delays (in one-second ticks) the settings are drawn from
RunCounts == {1, MaxRuns}
Delays == {0, MaxDelay}

\* campaigns of n games named 1..n, every game with the same inter-run delay
CampaignsOf(n, rd) ==
    { [i \in 1..n |-> GameEntry(i, rcs[i], rd)] : rcs \in [1..n -> RunCounts] }

\* the campaign of the specification's scenario: three games, one run each
ScenarioCampaign(rd) == [i \in 1..3 |-> GameEntry(i, 1, rd)]

Campaigns(rd) ==
    UNION { CampaignsOf(n, rd) : n \in 0..MaxGames } \cup {ScenarioCampaign(rd)}

\* the entries of failed_games: f"{game_name} (Run {run_num})" and game_name
FailedRunEntry(name, n) == <<name, "Run", n>>
FailedConfigEntry(name) == <<name>>

Alive(t) == pc[t] \notin {"unborn", "done"}
AliveWorkers == { t \in Threads : Alive(t) }

\* self.thread and self.thread.is_alive()
ThreadIsAlive == thread # 0 /\ Alive(thread)

\* _run_automation: campaign or single-game mode
InCampaign == campaign_mode /\ Len(campaign) > 0

\* SUTController.__init__ assigns no attribute "network"
HasNetworkAttr == FALSE

\* ------------------------------------------------------------------- Init
SingleInit ==
    /\ campaign_mode = FALSE
    /\ campaign = << >>
    /\ config_path \in {"", "cfg"}
    /\ game_path \in {"", "game"}
    /\ run_count \in RunCounts
    /\ run_delay \in Delays
    /\ delay_between_games = 0
    /\ continue_on_failure = TRUE

CampaignInit ==
    /\ campaign_mode = TRUE
    /\ run_delay \in Delays
    /\ campaign \in Campaigns(run_delay)
    /\ config_path = ""
    /\ game_path = ""
    /\ run_count = 1
    /\ delay_between_games \in Delays
    /\ continue_on_failure \in BOOLEAN

StateInit ==
    /\ thread = 0
    /\ stop_event = FALSE
    /\ status = "Idle"
    /\ current_run = 0
    /\ total_runs = 1
    /\ failed_games = << >>
    /\ logger = FALSE
    /\ current_process_id = FALSE
    /\ kills = 0
    /\ pc = [t \in Threads |-> "unborn"]
    /\ game_index = [t \in Threads |-> 0]
    /\ run_num = [t \in Threads |-> 0]
    /\ tick = [t \in Threads |-> 0]
    /\ gui_pc = "idle"
    /\ gui_ret = <<"none", "none">>
    /\ launch_cancel_flag = FALSE
    /\ runs = << >>

\* the agent before any request (agent, lines 68-75)
AgentStart ==
    /\ game_lock = 0
    /\ current_game_process_name = << >>
    /\ game_process = 0
    /\ lpc = [r \in Launches |-> "unsent"]
    /\ path_kind = [r \in Launches |-> "none"]
    /\ new_process_name = [r \in Launches |-> << >>]
    /\ actual_process = [r \in Launches |-> -1]
    /\ foreground_confirmed = [r \in Launches |-> FALSE]
    /\ attempt = [r \in Launches |-> 0]
    /\ polls = [r \in Launches |-> 0]
    /\ lres = [r \in Launches |-> "none"]
    /\ cancel_at = "none"

\* the agent before any request, on a SUT where no game or launcher runs
AgentIdle == AgentStart /\ pstate = [p \in 0..MaxLaunches |-> "none"]

\* no process lookup is under way
MatchingIdle ==
    /\ find_name = << >>
    /\ find_table = {}
    /\ find_result = <<"none">>

\* ---------------------------------------------------------------- logging
SUTs == 1..MaxSuts

\* the value of threading.current_thread().ident of a worker: the idents of
\* live threads differ, the ident of a thread that has exited is given again
Idents == 1..MaxSuts

\* a QueueHandler made by setup_logger (lines 252-259): the controller whose
\* log_queue it feeds, the thread_id of its ThreadFilter, and a serial bit
\* that tells the handler object of a job from the one of the job before;
\* NoHandler is None
Handler(s, serial, ident) == [sut |-> s, serial |-> serial, thread_id |-> ident]
NoHandler == Handler(0, 0, 0)

\* SUTController.__init__, lines 186-194, of every controller, and the
\* logging module before any setup_logger: names[s] is the controller's name,
\* by which logging.getLogger(f"SUT-{name}") finds its logger
LoggingStart(names) ==
    [ root_handlers |-> {},
      sut_handlers  |-> [n \in SUTs |-> {}],
      name          |-> names,
      pc            |-> [s \in SUTs |-> "idle"],
      thread_id     |-> [s \in SUTs |-> 0],
      queue_handler |-> [s \in SUTs |-> NoHandler],
      serial        |-> [s \in SUTs |-> 0],
      exit_by       |-> [s \in SUTs |-> "none"],
      log_queue     |-> [s \in SUTs |-> {}] ]

\* the GUI has no controller whose log handlers are followed
LoggingIdle == logging = << >>

\* the controllers are not followed side by side
FleetIdle == fleet = << >>

Init ==
    /\ (SingleInit \/ CampaignInit) /\ StateInit /\ AgentIdle /\ MatchingIdle
    /\ LoggingIdle
    /\ FleetIdle

\* ------------------------------------------------- GUI thread: start, stop
\* the sum of game.run_count over self.campaign
RECURSIVE SumRunCounts(_)
SumRunCounts(c) ==
    IF Len(c) = 0 THEN 0 ELSE c[1].run_count + SumRunCounts(Tail(c))

jobstate == <<thread, stop_event, status, current_run, total_runs,
              failed_games, pc, locals, runs>>

\* start_automation, lines 276-279: a worker is alive, nothing is touched
StartWhileAlive ==
    /\ gui_ret' = <<"start", "False">>
    /\ UNCHANGED <<settings, kills, agent, matching, aside, jobstate, logger, current_process_id, gui_pc,
                   launch_cancel_flag>>

\* the refusal of an empty job that leaves the status as it is
StartEmptyNoError ==
    /\ \/ campaign_mode /\ Len(campaign) = 0
       \/ ~campaign_mode /\ config_path = ""
    /\ gui_ret' = <<"start", "False">>
    /\ UNCHANGED <<settings, kills, agent, matching, aside, jobstate, logger,
                   current_process_id, gui_pc, launch_cancel_flag>>

\* start_automation, lines 282-291: the job is structurally empty
StartEmpty ==
    /\ \/ campaign_mode /\ Len(campaign) = 0
       \/ ~campaign_mode /\ config_path = ""
    /\ status' = "Error"
    /\ gui_ret' = <<"start", "False">>
    /\ UNCHANGED <<settings, kills, agent, matching, aside, thread, stop_event, current_run, total_runs,
                   failed_games, logger, current_process_id, pc, locals,
                   gui_pc, launch_cancel_flag, runs>>

\* start_automation, lines 293-312: the job is accepted, one worker is spawned
StartAccepted ==
    /\ ~(campaign_mode /\ Len(campaign) = 0)
    /\ ~(~campaign_mode /\ config_path = "")
    /\ thread < MaxJobs
    /\ stop_event' = FALSE
    /\ status' = "Running"
    /\ current_run' = 0
    /\ total_runs' = IF campaign_mode THEN SumRunCounts(campaign) ELSE run_count
    /\ thread' = thread + 1
    /\ pc' = [pc EXCEPT ![thread + 1] = "start"]
    /\ runs' = << >>
    /\ gui_ret' = <<"start", "True">>
    /\ UNCHANGED <<settings, kills, agent, matching, aside, failed_games, logger, current_process_id, locals,
                   gui_pc, launch_cancel_flag>>

\* start_automation without the is_alive test of line 276
StartAutomationNoAliveTest ==
    /\ gui_pc = "idle"
    /\ (StartEmpty \/ StartAccepted)

\* SUTController.start_automation, called on the GUI thread
StartAutomation ==
    /\ gui_pc = "idle"
    /\ \/ ThreadIsAlive /\ StartWhileAlive
       \/ ~ThreadIsAlive /\ StartEmpty
       \/ ~ThreadIsAlive /\ StartAccepted

\* stop_automation, line 316: the is_alive test
StopEnter ==
    /\ gui_pc = "idle"
    /\ IF ThreadIsAlive
         THEN gui_pc' = "stop_log" /\ UNCHANGED gui_ret
         ELSE gui_ret' = <<"stop", "False">> /\ UNCHANGED gui_pc
    /\ UNCHANGED <<settings, kills, agent, matching, aside, jobstate, logger, current_process_id,
                   launch_cancel_flag>>

\* stop_automation, line 317: self.logger.info raises AttributeError while
\* self.logger is still None
StopLog ==
    /\ gui_pc = "stop_log"
    /\ IF logger
         THEN gui_pc' = "stop_set" /\ UNCHANGED gui_ret
         ELSE gui_pc' = "idle" /\ gui_ret' = <<"stop", "raised">>
    /\ UNCHANGED <<settings, kills, agent, matching, aside, jobstate, logger, current_process_id,
                   launch_cancel_flag>>

\* stop_automation, line 318: self.stop_event.set()
StopSet ==
    /\ gui_pc = "stop_set"
    /\ stop_event' = TRUE
    /\ gui_pc' = "stop_status"
    /\ UNCHANGED <<settings, kills, agent, matching, aside, thread, status, current_run, total_runs,
                   failed_games, logger, current_process_id, pc, locals,
                   gui_ret, launch_cancel_flag, runs>>

\* stop_automation, line 319: self.status = "Stopped"
StopStatus ==
    /\ gui_pc = "stop_status"
    /\ status' = "Stopped"
    /\ gui_pc' = "stop_cancel"
    /\ UNCHANGED <<settings, kills, agent, matching, aside, thread, stop_event, current_run, total_runs,
                   failed_games, logger, current_process_id, pc, locals,
                   gui_ret, launch_cancel_flag, runs>>

\* stop_automation, lines 322-331: the cancel_launch request is sent only if
\* self.network exists; the AttributeError is swallowed by the except clause
StopCancel ==
    /\ gui_pc = "stop_cancel"
    /\ launch_cancel_flag' = IF HasNetworkAttr THEN TRUE ELSE launch_cancel_flag
    /\ gui_pc' = "idle"
    /\ gui_ret' = <<"stop", "True">>
    /\ UNCHANGED <<settings, kills, agent, matching, aside, jobstate, logger, current_process_id>>

\* SUTController.stop_automation, called on the GUI thread
StopAutomation == StopEnter \/ StopLog \/ StopSet \/ StopStatus \/ StopCancel

\* ---------------------------------------------------------- worker thread
\* what a worker step never writes
wfixed == <<settings, thread, stop_event, gui_pc, gui_ret, agent, matching, aside>>

Goto(t, l) == pc' = [pc EXCEPT ![t] = l]

\* a return out of _run_single_game / _run_campaign: the locals are gone
ToExit(t) ==
    /\ pc' = [pc EXCEPT ![t] = "exit"]
    /\ game_index' = [game_index EXCEPT ![t] = 0]
    /\ run_num' = [run_num EXCEPT ![t] = 0]
    /\ tick' = [tick EXCEPT ![t] = 0]

\* the game_entry of the campaign loop, and the game a run belongs to
Entry(t) == campaign[game_index[t]]
RunGame(t) == IF InCampaign THEN Entry(t).game_name ELSE 0

\* self.game_path during a run (_run_campaign, line 501, sets it from the entry)
RunGamePath(t) == IF InCampaign THEN Entry(t).game_path ELSE game_path

Record(t, outcome) == runs' = Append(runs, <<RunGame(t), run_num[t], outcome>>)

\* where _run_simple_automation / _run_state_machine_automation return to
AfterRun == IF InCampaign THEN "c_after_run" ELSE "s_after_run"

\* kill_game_process, line 1018: the JSON field that carries the process name
KillRequestField == "process_id"

\* the agent's /kill_process (agent, lines 982-994): the name is read from
\* the field "process_name"; without it the answer is 400, with it 200
AgentKillStatus(field) == IF field = "process_name" THEN 200 ELSE 400

\* kill_game_process, lines 1004-1041, called with a tracked process id: the
\* request is sent; 200 or 404 clears current_process_id, any other answer
\* and a transport error leave it
KillGameProcess ==
    /\ kills' = kills + 1
    /\ \/ current_process_id' =
             IF AgentKillStatus(KillRequestField) \in {200, 404}
               THEN FALSE ELSE current_process_id
       \/ UNCHANGED current_process_id

\* _run_automation, lines 336-347: setup_logger, then the mode dispatch;
\* _run_campaign, line 444, resets failed_games
WStart(t) ==
    /\ pc[t] = "start"
    /\ logger' = TRUE
    /\ IF InCampaign
         THEN /\ failed_games' = << >>
              /\ game_index' = [game_index EXCEPT ![t] = 1]
              /\ Goto(t, "c_game_check")
         ELSE /\ Goto(t, "s_load")
              /\ UNCHANGED <<failed_games, game_index>>
    /\ UNCHANGED <<wfixed, kills, status, current_run, total_runs, current_process_id,
                   run_num, tick, launch_cancel_flag, runs>>

\* _run_single_game, lines 369-377: the workflow config loads or does not
SLoad(t) ==
    /\ pc[t] = "s_load"
    /\ \/ /\ run_num' = [run_num EXCEPT ![t] = 1]
          /\ Goto(t, "s_run_check")
          /\ UNCHANGED <<status, game_index, tick>>
       \/ /\ status' = "Failed"
          /\ ToExit(t)
    /\ UNCHANGED <<wfixed, kills, current_run, total_runs, failed_games, logger,
                   current_process_id, launch_cancel_flag, runs>>

\* _run_single_game, lines 393-398: the stop check before each run
SRunCheck(t) ==
    /\ pc[t] = "s_run_check"
    /\ IF stop_event
         THEN status' = "Stopped" /\ ToExit(t) /\ UNCHANGED current_run
         ELSE /\ current_run' = run_num[t]
              /\ Goto(t, "r_begin")
              /\ UNCHANGED <<status, locals>>
    /\ UNCHANGED <<wfixed, kills, total_runs, failed_games, logger,
                   current_process_id, launch_cancel_flag, runs>>

\* _run_simple_automation, lines 602-693 (_run_state_machine_automation,
\* lines 768-848): NetworkManager's connection check, the Steam login and the
\* launch request, which clears the agent's cancel flag (agent, line 1427)
RBegin(t) ==
    /\ pc[t] = "r_begin"
    /\ \/ /\ status' = "Failed"                 \* ConnectionError, line 762
          /\ Record(t, "failed")
          /\ Goto(t, AfterRun)
          /\ UNCHANGED launch_cancel_flag
       \/ /\ status' = "Failed"                 \* Steam login failed, line 686
          /\ Record(t, "failed")
          /\ Goto(t, "r_finally")
          /\ UNCHANGED launch_cancel_flag
       \/ /\ RunGamePath(t) # ""
          /\ launch_cancel_flag' = FALSE
          /\ Goto(t, "r_launch_wait")
          /\ UNCHANGED <<status, runs>>
       \/ /\ RunGamePath(t) = ""
          /\ Goto(t, "r_init_check")
          /\ UNCHANGED <<status, runs, launch_cancel_flag>>
    /\ kills' = 0
    /\ UNCHANGED <<wfixed, current_run, total_runs, failed_games, logger,
                   current_process_id, locals>>

\* what the SUT can oppose to a launch request: a JSON answer with one of the
\* agent's statuses, an HTTP error answer (400, 404, 500), or no answer
\* (connection refused or lost, or the client's 90 s timeout)
LaunchAnswers == {"success", "warning", "cancelled", "error", "transport"}

\* NetworkManager.launch_game, modules/network.py lines 165-203: the answer's
\* JSON is returned; raise_for_status and the transport raise RequestException
NetworkLaunchGame(answer) ==
    IF answer \in {"error", "transport"} THEN "raises" ELSE answer

\* GameLauncher.launch, modules/game_launcher.py lines 40-80: True for the
\* status success, RuntimeError for every other status and for an exception
GameLauncherLaunch(answer) ==
    IF NetworkLaunchGame(answer) = "success" THEN "returns" ELSE "raises"

\* a launch failure that re-enters the run instead of failing it
RLaunchOnRetry(t, answer) ==
    /\ pc[t] = "r_launch_wait"
    /\ IF GameLauncherLaunch(answer) = "returns"
         THEN /\ \E has_process_id \in BOOLEAN :
                   current_process_id' = (current_process_id \/ has_process_id)
              /\ Goto(t, "r_init_check")
         ELSE /\ Goto(t, "r_begin")
              /\ UNCHANGED current_process_id
    /\ UNCHANGED <<wfixed, kills, status, runs, current_run, total_runs,
                   failed_games, logger, locals, launch_cancel_flag>>

\* lines 693-698 and 742-744: the launch returns and the process id of the
\* metadata, if any, is tracked; or it raises and the run is Failed
RLaunchOn(t, answer) ==
    /\ pc[t] = "r_launch_wait"
    /\ IF GameLauncherLaunch(answer) = "returns"
         THEN /\ \E has_process_id \in BOOLEAN :
                   current_process_id' = (current_process_id \/ has_process_id)
              /\ Goto(t, "r_init_check")
              /\ UNCHANGED <<status, runs>>
         ELSE /\ status' = "Failed"
              /\ Record(t, "failed")
              /\ Goto(t, "r_finally")
              /\ UNCHANGED current_process_id
    /\ UNCHANGED <<wfixed, kills, current_run, total_runs, failed_games, logger,
                   locals, launch_cancel_flag>>

\* the SUT answers the launch request of line 693 in one way or another
RLaunchReturn(t) == \E answer \in LaunchAnswers : RLaunchOn(t, answer)

\* lines 702-713: the initialisation wait ends, then the stop check
RInitCheck(t) ==
    /\ pc[t] = "r_init_check"
    /\ IF stop_event
         THEN status' = "Stopped" /\ Record(t, "stopped") /\ Goto(t, "r_finally")
         ELSE Goto(t, "r_exec") /\ UNCHANGED <<status, runs>>
    /\ UNCHANGED <<wfixed, kills, current_run, total_runs, failed_games, logger,
                   current_process_id, locals, launch_cancel_flag>>

\* lines 717-744: the step executor runs and returns success or not, or raises
RExec(t) ==
    /\ pc[t] = "r_exec"
    /\ \/ /\ status' = "Completed"              \* line 733
          /\ Record(t, "ok")
          /\ Goto(t, "r_finally")
       \/ /\ status' = "Failed"                 \* line 744
          /\ Record(t, "failed")
          /\ Goto(t, "r_finally")
       \/ /\ stop_event                         \* lines 735-736
          /\ status' = "Stopped"
          /\ Record(t, "stopped")
          /\ Goto(t, "r_finally")
       \/ /\ ~stop_event                        \* line 735, else branch
          /\ Goto(t, "r_set_failed")
          /\ UNCHANGED <<status, runs>>
    /\ UNCHANGED <<wfixed, kills, current_run, total_runs, failed_games, logger,
                   current_process_id, locals, launch_cancel_flag>>

\* line 739: self.status = "Failed"
RSetFailed(t) ==
    /\ pc[t] = "r_set_failed"
    /\ status' = "Failed"
    /\ Record(t, "failed")
    /\ Goto(t, "r_finally")
    /\ UNCHANGED <<wfixed, kills, current_run, total_runs, failed_games, logger,
                   current_process_id, locals, launch_cancel_flag>>

\* the finally block without the status test: any tracked process is killed
RFinallyAlwaysKill(t) ==
    /\ pc[t] = "r_finally"
    /\ IF current_process_id
         THEN KillGameProcess
         ELSE UNCHANGED <<kills, current_process_id>>
    /\ Goto(t, AfterRun)
    /\ UNCHANGED <<wfixed, status, current_run, total_runs, failed_games,
                   logger, locals, launch_cancel_flag, runs>>

\* lines 746-760 (891-904): the finally block; kill_game_process is called
\* when a process is tracked and the status is Failed or Stopped
RFinally(t) ==
    /\ pc[t] = "r_finally"
    /\ IF current_process_id /\ status \in {"Failed", "Stopped"}
         THEN KillGameProcess
         ELSE UNCHANGED <<kills, current_process_id>>
    /\ Goto(t, AfterRun)
    /\ UNCHANGED <<wfixed, status, current_run, total_runs, failed_games,
                   logger, locals, launch_cancel_flag, runs>>

\* the for loop of _run_single_game left after its first run
SNextRunOnce(t) ==
    /\ tick' = [tick EXCEPT ![t] = 0]
    /\ Goto(t, "s_end")
    /\ UNCHANGED <<game_index, run_num>>

\* the for loop of _run_single_game moves to its next run, or ends
SNextRun(t) ==
    IF run_num[t] < run_count
      THEN /\ run_num' = [run_num EXCEPT ![t] = run_num[t] + 1]
           /\ tick' = [tick EXCEPT ![t] = 0]
           /\ Goto(t, "s_run_check")
           /\ UNCHANGED game_index
      ELSE /\ tick' = [tick EXCEPT ![t] = 0]
           /\ Goto(t, "s_end")
           /\ UNCHANGED <<game_index, run_num>>

\* _run_single_game, lines 410-413: the stop check after a run
SAfterRun(t) ==
    /\ pc[t] = "s_after_run"
    /\ IF stop_event
         THEN status' = "Stopped" /\ ToExit(t)
         ELSE Goto(t, "s_failed_check") /\ UNCHANGED <<status, locals>>
    /\ UNCHANGED <<wfixed, kills, current_run, total_runs, failed_games, logger,
                   current_process_id, launch_cancel_flag, runs>>

\* _run_single_game, lines 415-421: a failed run ends the batch; otherwise the
\* inter-run delay begins or the loop goes on
SFailedCheck(t) ==
    /\ pc[t] = "s_failed_check"
    /\ IF status = "Failed"
         THEN ToExit(t)
         ELSE IF run_num[t] < run_count /\ run_delay > 0
                THEN /\ tick' = [tick EXCEPT ![t] = 0]
                     /\ Goto(t, "s_delay")
                     /\ UNCHANGED <<game_index, run_num>>
                ELSE SNextRun(t)
    /\ UNCHANGED <<wfixed, kills, status, current_run, total_runs, failed_games,
                   logger, current_process_id, launch_cancel_flag, runs>>

\* the inter-run delay as a plain sleep that does not look at the stop signal
SDelayNoStopCheck(t) ==
    /\ pc[t] = "s_delay"
    /\ IF tick[t] + 1 < run_delay
         THEN /\ tick' = [tick EXCEPT ![t] = tick[t] + 1]
              /\ UNCHANGED <<pc, game_index, run_num>>
         ELSE SNextRun(t)
    /\ UNCHANGED <<wfixed, kills, status, current_run, total_runs, failed_games,
                   logger, current_process_id, launch_cancel_flag, runs>>

\* _run_single_game, lines 422-427: one tick of the inter-run delay
SDelay(t) ==
    /\ pc[t] = "s_delay"
    /\ IF stop_event
         THEN status' = "Stopped" /\ ToExit(t)
         ELSE /\ UNCHANGED status
              /\ IF tick[t] + 1 < run_delay
                   THEN /\ tick' = [tick EXCEPT ![t] = tick[t] + 1]
                        /\ UNCHANGED <<pc, game_index, run_num>>
                   ELSE SNextRun(t)
    /\ UNCHANGED <<wfixed, kills, current_run, total_runs, failed_games, logger,
                   current_process_id, launch_cancel_flag, runs>>

\* _run_single_game, line 430: the status test after the last run
SEnd(t) ==
    /\ pc[t] = "s_end"
    /\ IF status # "Failed" /\ status # "Stopped"
         THEN Goto(t, "s_complete") /\ UNCHANGED locals
         ELSE ToExit(t)
    /\ UNCHANGED <<wfixed, kills, status, current_run, total_runs, failed_games,
                   logger, current_process_id, launch_cancel_flag, runs>>

\* _run_single_game, line 431: self.status = "Completed"
SComplete(t) ==
    /\ pc[t] = "s_complete"
    /\ status' = "Completed"
    /\ ToExit(t)
    /\ UNCHANGED <<wfixed, kills, current_run, total_runs, failed_games, logger,
                   current_process_id, launch_cancel_flag, runs>>

\* _run_automation, lines 353-361: the finally block, then the thread ends
WExit(t) ==
    /\ pc[t] = "exit"
    /\ kills' = 0
    /\ Goto(t, "done")
    /\ UNCHANGED <<wfixed, status, current_run, total_runs, failed_games,
                   logger, current_process_id, locals, launch_cancel_flag, runs>>

\* the for loop of _run_campaign moves to its next game, or ends
CNextGame(t) ==
    IF game_index[t] < Len(campaign)
      THEN /\ game_index' = [game_index EXCEPT ![t] = game_index[t] + 1]
           /\ run_num' = [run_num EXCEPT ![t] = 0]
           /\ tick' = [tick EXCEPT ![t] = 0]
           /\ Goto(t, "c_game_check")
      ELSE /\ run_num' = [run_num EXCEPT ![t] = 0]
           /\ tick' = [tick EXCEPT ![t] = 0]
           /\ Goto(t, "c_end")
           /\ UNCHANGED game_index

\* _run_campaign, lines 562-575: after the runs of a game, the inter-game
\* delay begins unless this was the last game
CAfterGame(t) ==
    IF game_index[t] < Len(campaign) /\ delay_between_games > 0
      THEN /\ tick' = [tick EXCEPT ![t] = 0]
           /\ run_num' = [run_num EXCEPT ![t] = 0]
           /\ Goto(t, "c_game_delay")
           /\ UNCHANGED game_index
      ELSE CNextGame(t)

\* the inner for loop of _run_campaign moves to its next run, or ends
CNextRun(t) ==
    IF run_num[t] < Entry(t).run_count
      THEN /\ run_num' = [run_num EXCEPT ![t] = run_num[t] + 1]
           /\ tick' = [tick EXCEPT ![t] = 0]
           /\ Goto(t, "c_run_check")
           /\ UNCHANGED game_index
      ELSE CAfterGame(t)

\* _run_campaign, lines 459-474: the stop check before each game
CGameCheck(t) ==
    /\ pc[t] = "c_game_check"
    /\ IF stop_event
         THEN status' = "Stopped" /\ ToExit(t)
         ELSE Goto(t, "c_load") /\ UNCHANGED <<status, locals>>
    /\ UNCHANGED <<wfixed, kills, current_run, total_runs, failed_games, logger,
                   current_process_id, launch_cancel_flag, runs>>

\* _run_campaign, lines 477-504: the game's workflow config loads or does not
CLoad(t) ==
    /\ pc[t] = "c_load"
    /\ \/ /\ run_num' = [run_num EXCEPT ![t] = 1]
          /\ Goto(t, "c_run_check")
          /\ UNCHANGED <<status, failed_games, runs, game_index, tick>>
       \/ /\ failed_games' =
                Append(failed_games, FailedConfigEntry(Entry(t).game_name))
          /\ runs' = Append(runs, <<Entry(t).game_name, 0, "noconfig">>)
          /\ IF continue_on_failure
               THEN CNextGame(t) /\ UNCHANGED status
               ELSE status' = "Failed" /\ ToExit(t)
    /\ UNCHANGED <<wfixed, kills, current_run, total_runs, logger,
                   current_process_id, launch_cancel_flag>>

\* _run_campaign, lines 506-513: the stop check before each run
CRunCheck(t) ==
    /\ pc[t] = "c_run_check"
    /\ IF stop_event
         THEN status' = "Stopped" /\ ToExit(t)
              /\ UNCHANGED <<current_run, total_runs>>
         ELSE /\ current_run' = run_num[t]
              /\ total_runs' = Entry(t).run_count
              /\ Goto(t, "r_begin")
              /\ UNCHANGED <<status, locals>>
    /\ UNCHANGED <<wfixed, kills, failed_games, logger, current_process_id,
                   launch_cancel_flag, runs>>

\* _run_campaign, lines 527-531: the stop check after a run
CAfterRun(t) ==
    /\ pc[t] = "c_after_run"
    /\ IF stop_event
         THEN status' = "Stopped" /\ ToExit(t)
         ELSE Goto(t, "c_failed_check") /\ UNCHANGED <<status, locals>>
    /\ UNCHANGED <<wfixed, kills, current_run, total_runs, failed_games, logger,
                   current_process_id, launch_cancel_flag, runs>>

\* the failed-run handling with continue_on_failure ignored: always abort
CFailedCheckAbort(t) ==
    /\ pc[t] = "c_failed_check"
    /\ IF status = "Failed"
         THEN /\ failed_games' =
                    Append(failed_games,
                           FailedRunEntry(Entry(t).game_name, run_num[t]))
              /\ IF current_process_id
                   THEN KillGameProcess
                   ELSE UNCHANGED <<kills, current_process_id>>
              /\ ToExit(t)
         ELSE /\ UNCHANGED <<failed_games, kills, current_process_id>>
              /\ IF run_num[t] < Entry(t).run_count /\ Entry(t).run_delay > 0
                   THEN /\ tick' = [tick EXCEPT ![t] = 0]
                        /\ Goto(t, "c_run_delay")
                        /\ UNCHANGED <<game_index, run_num>>
                   ELSE CNextRun(t)
    /\ UNCHANGED <<wfixed, status, current_run, total_runs, logger,
                   launch_cancel_flag, runs>>

\* the failed-run handling with continue_on_failure ignored: always continue
CFailedCheckContinue(t) ==
    /\ pc[t] = "c_failed_check"
    /\ IF status = "Failed"
         THEN /\ failed_games' =
                    Append(failed_games,
                           FailedRunEntry(Entry(t).game_name, run_num[t]))
              /\ IF current_process_id
                   THEN KillGameProcess
                   ELSE UNCHANGED <<kills, current_process_id>>
              /\ Goto(t, "c_reset")
              /\ UNCHANGED locals
         ELSE /\ UNCHANGED <<failed_games, kills, current_process_id>>
              /\ IF run_num[t] < Entry(t).run_count /\ Entry(t).run_delay > 0
                   THEN /\ tick' = [tick EXCEPT ![t] = 0]
                        /\ Goto(t, "c_run_delay")
                        /\ UNCHANGED <<game_index, run_num>>
                   ELSE CNextRun(t)
    /\ UNCHANGED <<wfixed, status, current_run, total_runs, logger,
                   launch_cancel_flag, runs>>

\* _run_campaign, lines 533-552: a failed run is recorded, a tracked process
\* is killed (538-540), and the failure ends the game
\* (continue_on_failure) or the campaign; otherwise the inter-run delay begins
\* or the loop goes on
CFailedCheck(t) ==
    /\ pc[t] = "c_failed_check"
    /\ IF status = "Failed"
         THEN /\ failed_games' =
                    Append(failed_games,
                           FailedRunEntry(Entry(t).game_name, run_num[t]))
              /\ IF current_process_id
                   THEN KillGameProcess
                   ELSE UNCHANGED <<kills, current_process_id>>
              /\ IF continue_on_failure
                   THEN Goto(t, "c_reset") /\ UNCHANGED locals
                   ELSE ToExit(t)
         ELSE /\ UNCHANGED <<failed_games, kills, current_process_id>>
              /\ IF run_num[t] < Entry(t).run_count /\ Entry(t).run_delay > 0
                   THEN /\ tick' = [tick EXCEPT ![t] = 0]
                        /\ Goto(t, "c_run_delay")
                        /\ UNCHANGED <<game_index, run_num>>
                   ELSE CNextRun(t)
    /\ UNCHANGED <<wfixed, status, current_run, total_runs, logger,
                   launch_cancel_flag, runs>>

\* the continue path without the status reset of line 544
CResetNoReset(t) ==
    /\ pc[t] = "c_reset"
    /\ kills' = 0
    /\ CAfterGame(t)
    /\ UNCHANGED <<wfixed, status, current_run, total_runs, failed_games,
                   logger, current_process_id, launch_cancel_flag, runs>>

\* _run_campaign, lines 544-545: the status goes back to Running and the
\* remaining runs of the game are skipped
CReset(t) ==
    /\ pc[t] = "c_reset"
    /\ kills' = 0
    /\ status' = "Running"
    /\ CAfterGame(t)
    /\ UNCHANGED <<wfixed, current_run, total_runs, failed_games, logger,
                   current_process_id, launch_cancel_flag, runs>>

\* _run_campaign, lines 553-559: one tick of the inter-run delay
CRunDelay(t) ==
    /\ pc[t] = "c_run_delay"
    /\ IF stop_event
         THEN status' = "Stopped" /\ ToExit(t)
         ELSE /\ UNCHANGED status
              /\ IF tick[t] + 1 < Entry(t).run_delay
                   THEN /\ tick' = [tick EXCEPT ![t] = tick[t] + 1]
                        /\ UNCHANGED <<pc, game_index, run_num>>
                   ELSE CNextRun(t)
    /\ UNCHANGED <<wfixed, kills, current_run, total_runs, failed_games, logger,
                   current_process_id, launch_cancel_flag, runs>>

\* _run_campaign, lines 570-575: one tick of the inter-game delay
CGameDelay(t) ==
    /\ pc[t] = "c_game_delay"
    /\ IF stop_event
         THEN status' = "Stopped" /\ ToExit(t)
         ELSE /\ UNCHANGED status
              /\ IF tick[t] + 1 < delay_between_games
                   THEN /\ tick' = [tick EXCEPT ![t] = tick[t] + 1]
                        /\ UNCHANGED <<pc, game_index, run_num>>
                   ELSE CNextGame(t)
    /\ UNCHANGED <<wfixed, kills, current_run, total_runs, failed_games, logger,
                   current_process_id, launch_cancel_flag, runs>>

\* the end of _run_campaign without the Completed branch of lines 578-587
CEndNoComplete(t) ==
    /\ pc[t] = "c_end"
    /\ ToExit(t)
    /\ UNCHANGED <<wfixed, kills, status, current_run, total_runs, failed_games,
                   logger, current_process_id, launch_cancel_flag, runs>>

\* _run_campaign, line 578: the status test after the last game
CEnd(t) ==
    /\ pc[t] = "c_end"
    /\ IF status # "Failed" /\ status # "Stopped"
         THEN Goto(t, "c_complete") /\ UNCHANGED locals
         ELSE ToExit(t)
    /\ UNCHANGED <<wfixed, kills, status, current_run, total_runs, failed_games,
                   logger, current_process_id, launch_cancel_flag, runs>>

\* _run_campaign, lines 581-587: self.status = "Completed"
CComplete(t) ==
    /\ pc[t] = "c_complete"
    /\ status' = "Completed"
    /\ ToExit(t)
    /\ UNCHANGED <<wfixed, kills, current_run, total_runs, failed_games, logger,
                   current_process_id, launch_cancel_flag, runs>>

\* ------------------------------------------------------------ specification
Worker(t) ==
    \/ WStart(t) \/ WExit(t)
    \/ SLoad(t) \/ SRunCheck(t) \/ SAfterRun(t) \/ SFailedCheck(t)
    \/ SDelay(t) \/ SEnd(t) \/ SComplete(t)
    \/ CGameCheck(t) \/ CLoad(t) \/ CRunCheck(t) \/ CAfterRun(t)
    \/ CFailedCheck(t) \/ CReset(t) \/ CRunDelay(t) \/ CGameDelay(t)
    \/ CEnd(t) \/ CComplete(t)
    \/ RBegin(t) \/ RLaunchReturn(t) \/ RInitCheck(t) \/ RExec(t)
    \/ RSetFailed(t) \/ RFinally(t)

Next ==
    \/ StartAutomation
    \/ StopAutomation
    \/ \E t \in Threads : Worker(t)

Spec == Init /\ [][Next]_vars

\* ---------------------------------------------------------- process names
\* a name is a sequence of characters; << >> is None or the empty string
GameExe == <<"R", "D", "R", "2", ".", "e", "x", "e">>
LauncherExe == <<"P", "l", "a", "y">> \o GameExe

\* str.lower()
LowerChar(c) ==
    CASE c = "R" -> "r" [] c = "D" -> "d" [] c = "P" -> "p"
      [] c = "E" -> "e" [] c = "X" -> "x" [] OTHER -> c
Lower(n) == [i \in 1..Len(n) |-> LowerChar(n[i])]

\* sub in str
Contains(sub, str) ==
    /\ Len(sub) <= Len(str)
    /\ \E i \in 0..(Len(str) - Len(sub)) : SubSeq(str, i + 1, i + Len(sub)) = sub

\* os.path.splitext(name)[0]: the name up to its last dot
SplitExt(n) ==
    LET dots == { i \in 2..Len(n) : n[i] = "." }
    IN  IF dots = {} THEN n
        ELSE SubSeq(n, 1, (CHOOSE i \in dots : \A j \in dots : j <= i) - 1)

\* the partial match of find_process_by_name taken whatever exact_only says
NameMatchesPartial(proc, process_name, exact_only) ==
    \/ proc.name # << >> /\ Contains(Lower(process_name), Lower(proc.name))
    \/ proc.exe # << >> /\ Contains(Lower(process_name), Lower(proc.exe))

\* the test of find_process_by_name on one process of the iteration
NameMatches(proc, process_name, exact_only) ==
    IF exact_only
      THEN \/ proc.name # << >> /\ Lower(proc.name) = Lower(process_name)
           \/ proc.exe # << >> /\ Lower(proc.exe) = Lower(process_name)
      ELSE \/ proc.name # << >> /\ Contains(Lower(process_name), Lower(proc.name))
           \/ proc.exe # << >> /\ Contains(Lower(process_name), Lower(proc.exe))

\* find_process_by_name: the pids it can return (the first match of the
\* iteration); None when the set is empty
FindProcessByName(process_name, table, exact_only) ==
    { proc.pid : proc \in { q \in table : NameMatches(q, process_name, exact_only) } }

\* terminate_process_by_name: the pids it terminates (substring test)
TerminateProcessByName(process_name, table) ==
    { proc.pid : proc \in
        { q \in table :
            \/ q.name # << >> /\ Contains(Lower(process_name), Lower(q.name))
            \/ q.exe # << >> /\ Contains(Lower(process_name), Lower(q.exe)) } }

\* ------------------------------------------------------ SUT agent: /launch
\* max_retries of the foreground retry loop
max_retries == 5

\* what no request handler of the agent writes
controller == <<settings, thread, stop_event, status, current_run, total_runs,
                failed_games, logger, current_process_id, kills, pc, locals,
                gui_pc, gui_ret, runs>>

\* the process names a request can carry in data['process_id']
ProcessIds == {<< >>, GameExe}

\* psutil's view of the SUT: pid 0 is the game's launcher, pid r the game
\* process started by /launch request r
ProcInfo(p) ==
    IF p = 0 THEN [pid |-> 0, name |-> LauncherExe, exe |-> LauncherExe]
             ELSE [pid |-> p, name |-> GameExe, exe |-> GameExe]
Running == { p \in DOMAIN pstate : pstate[p] = "running" }
ProcessTable == { ProcInfo(p) : p \in Running }

\* the request returns `outcome`; leaving the with-block frees the lock
\* and the handler's locals are gone
Return(r, outcome) ==
    /\ lres' = [lres EXCEPT ![r] = outcome]
    /\ lpc' = [lpc EXCEPT ![r] = "done"]
    /\ path_kind' = [path_kind EXCEPT ![r] = "none"]
    /\ new_process_name' = [new_process_name EXCEPT ![r] = << >>]
    /\ actual_process' = [actual_process EXCEPT ![r] = -1]
    /\ foreground_confirmed' = [foreground_confirmed EXCEPT ![r] = FALSE]
    /\ attempt' = [attempt EXCEPT ![r] = 0]
    /\ polls' = [polls EXCEPT ![r] = 0]
\* a return that leaves the with-block without releasing game_lock
ReturnKeepsLock(r, outcome) ==
    /\ Return(r, outcome)
    /\ UNCHANGED game_lock
    /\ cancel_at' = IF launch_cancel_flag /\ cancel_at # "none"
                      THEN "stale" ELSE "none"
ReturnUnlocked(r, outcome) ==
    /\ Return(r, outcome)
    /\ game_lock' = 0
    /\ cancel_at' = IF launch_cancel_flag /\ cancel_at # "none"
                      THEN "stale" ELSE "none"
LGoto(r, l) == lpc' = [lpc EXCEPT ![r] = l]

\* the handler that reaps before it resolves its target, so that a target
\* that does not resolve has already cost the tracked game
LArriveReapFirst(r) ==
    /\ lpc[r] = "unsent"
    /\ \A q \in 1..(r - 1) : lpc[q] # "unsent"
    /\ launch_cancel_flag' = FALSE
    /\ \/ /\ Return(r, "error400")
          /\ UNCHANGED agent_globals
       \/ /\ Return(r, "error404")
          /\ current_game_process_name' = << >>
          /\ pstate' = [p \in DOMAIN pstate |->
                          IF pstate[p] = "running" /\ game_process # 0 /\ p = game_process
                            THEN "exited" ELSE pstate[p]]
          /\ UNCHANGED <<game_lock, game_process>>
       \/ /\ \E kind \in {"steam", "direct"}, process_id \in ProcessIds :
                /\ path_kind' = [path_kind EXCEPT ![r] = kind]
                /\ new_process_name' =
                      [new_process_name EXCEPT ![r] =
                          IF process_id # << >> THEN process_id
                                                ELSE SplitExt(GameExe)]
          /\ LGoto(r, "lock")
          /\ UNCHANGED <<lres, actual_process, foreground_confirmed, attempt,
                         polls, agent_globals>>
    /\ cancel_at' = IF cancel_at = "stale" THEN "none" ELSE cancel_at
    /\ UNCHANGED <<controller, matching, aside>>

\* launch_game, lines 1424-1477: the cancel flag is cleared and the request
\* read; no path is 400; a Steam id that does not resolve or an executable
\* that does not exist is 404; otherwise the name to track is process_id or
\* the executable's name without its extension
LArrive(r) ==
    /\ lpc[r] = "unsent"
    /\ \A q \in 1..(r - 1) : lpc[q] # "unsent"
    /\ launch_cancel_flag' = FALSE
    /\ \/ Return(r, "error400")
       \/ Return(r, "error404")
       \/ /\ \E kind \in {"steam", "direct"}, process_id \in ProcessIds :
                /\ path_kind' = [path_kind EXCEPT ![r] = kind]
                /\ new_process_name' =
                      [new_process_name EXCEPT ![r] =
                          IF process_id # << >> THEN process_id
                                                ELSE SplitExt(GameExe)]
          /\ LGoto(r, "lock")
          /\ UNCHANGED <<lres, actual_process, foreground_confirmed, attempt,
                         polls>>
    /\ cancel_at' = IF cancel_at = "stale" THEN "none" ELSE cancel_at
    /\ UNCHANGED <<controller, matching, aside, agent_globals>>

\* the handler that takes the lock although another request holds it
LAcquireNoLock(r) ==
    /\ lpc[r] = "lock"
    /\ game_lock' = r
    /\ LGoto(r, "reap")
    /\ UNCHANGED <<controller, matching, aside, launch_cancel_flag, cancel_at,
                   current_game_process_name, game_process, pstate,
                   launch_locals, lres>>

\* launch_game, line 1479: with game_lock
LAcquire(r) ==
    /\ lpc[r] = "lock"
    /\ game_lock = 0
    /\ game_lock' = r
    /\ LGoto(r, "reap")
    /\ UNCHANGED <<controller, matching, aside, launch_cancel_flag, cancel_at,
                   current_game_process_name, game_process, pstate,
                   launch_locals, lres>>

\* the reap that terminates nothing and only clears the tracked name
LReapNoTerminate(r) ==
    /\ lpc[r] = "reap"
    /\ current_game_process_name' = << >>
    /\ LGoto(r, "spawn")
    /\ UNCHANGED <<controller, matching, aside, launch_cancel_flag, game_lock, pstate,
                   game_process, launch_locals, lres, cancel_at>>

\* launch_game, lines 1481-1491: a tracked game is terminated by name, its
\* handle too if it is still running, and the tracked name is cleared
LReap(r) ==
    /\ lpc[r] = "reap"
    /\ IF current_game_process_name # << >>
         THEN /\ pstate' =
                   [p \in DOMAIN pstate |->
                      IF /\ pstate[p] = "running"
                         /\ \/ p \in TerminateProcessByName(
                                        current_game_process_name, ProcessTable)
                            \/ game_process # 0 /\ p = game_process
                        THEN "exited" ELSE pstate[p]]
              /\ current_game_process_name' = << >>
         ELSE UNCHANGED <<pstate, current_game_process_name>>
    /\ LGoto(r, "spawn")
    /\ UNCHANGED <<controller, matching, aside, launch_cancel_flag, game_lock,
                   game_process, launch_locals, lres, cancel_at>>

\* launch_game, lines 1494-1532: the new name is tracked and the game is
\* started, through Steam (no handle) or by Popen, which can raise
LSpawn(r) ==
    /\ lpc[r] = "spawn"
    /\ current_game_process_name' = new_process_name[r]
    /\ \/ /\ path_kind[r] = "steam"
          /\ game_process' = 0
          /\ pstate' = [pstate EXCEPT ![r] = "starting"]
          /\ LGoto(r, "detect")
          /\ UNCHANGED <<lres, game_lock, cancel_at, launch_locals>>
       \/ /\ path_kind[r] = "direct"
          /\ game_process' = r
          /\ pstate' = [pstate EXCEPT ![r] = "running"]
          /\ LGoto(r, "detect")
          /\ UNCHANGED <<lres, game_lock, cancel_at, launch_locals>>
       \/ /\ path_kind[r] = "direct"
          /\ ReturnUnlocked(r, "error500")
          /\ UNCHANGED <<game_process, pstate>>
    /\ UNCHANGED <<controller, matching, aside, launch_cancel_flag>>

\* launch_game, lines 1537-1542: one lookup of the detection loop
LFind(r) ==
    /\ lpc[r] = "detect"
    /\ LET found == FindProcessByName(current_game_process_name, ProcessTable, TRUE)
       IN  IF found = {}
             THEN LGoto(r, "wait") /\ UNCHANGED actual_process
             ELSE /\ \E p \in found :
                       actual_process' = [actual_process EXCEPT ![r] = p]
                  /\ LGoto(r, "window")
    /\ UNCHANGED <<controller, matching, aside, launch_cancel_flag, agent_globals,
                   path_kind, new_process_name,
                   foreground_confirmed, attempt, polls, lres, cancel_at>>

\* launch_game, lines 1547-1554 and the loop test of 1537: the wait on the
\* cancel flag returns at once when it is set, else after the poll interval
LWait(r) ==
    /\ lpc[r] = "wait"
    /\ IF launch_cancel_flag \/ cancel_at = "notified"
         THEN ReturnUnlocked(r, "cancelled")
         ELSE /\ polls' = [polls EXCEPT ![r] = polls[r] + 1]
              /\ IF polls[r] + 1 < MaxPolls
                   THEN LGoto(r, "detect")
                   ELSE LGoto(r, "respond_none")
              /\ UNCHANGED <<lres, game_lock, cancel_at, path_kind,
                             new_process_name, actual_process,
                             foreground_confirmed, attempt>>
    /\ UNCHANGED <<controller, matching, aside, launch_cancel_flag,
                   current_game_process_name, game_process, pstate>>

\* launch_game, lines 1565-1570: wait_for_window_ready_pywinauto (lines
\* 1146-1227) waits for the window to be visible and ready; it does not look
\* at the cancel flag
LWindow(r) ==
    /\ lpc[r] = "window"
    /\ LGoto(r, "foreground")
    /\ UNCHANGED <<controller, matching, aside, launch_cancel_flag, agent_globals,
                   launch_locals, lres, cancel_at>>

\* launch_game, lines 1572-1586: ensure_window_foreground(_v2) (lines
\* 1266-1402) polls with fixed sleeps and confirms the foreground or not
LForeground(r) ==
    /\ lpc[r] = "foreground"
    /\ \E confirmed \in BOOLEAN :
          /\ foreground_confirmed' = [foreground_confirmed EXCEPT ![r] = confirmed]
          /\ IF confirmed
               THEN LGoto(r, "respond_found") /\ UNCHANGED attempt
               ELSE /\ attempt' = [attempt EXCEPT ![r] = 1]
                    /\ LGoto(r, "retry_wait")
    /\ UNCHANGED <<controller, matching, aside, launch_cancel_flag, agent_globals,
                   path_kind, new_process_name, actual_process,
                   polls, lres, cancel_at>>

\* launch_game, lines 1588-1592: the backoff before a retry waits on the flag
LRetryWait(r) ==
    /\ lpc[r] = "retry_wait"
    /\ IF launch_cancel_flag \/ cancel_at = "notified"
         THEN ReturnUnlocked(r, "cancelled")
         ELSE /\ LGoto(r, "retry_find")
              /\ UNCHANGED <<lres, game_lock, cancel_at, launch_locals>>
    /\ UNCHANGED <<controller, matching, aside, launch_cancel_flag,
                   current_game_process_name, game_process, pstate>>

\* the for loop of line 1585 with one attempt more
NextAttemptOneMore(r) ==
    IF attempt[r] < max_retries + 1
      THEN /\ attempt' = [attempt EXCEPT ![r] = attempt[r] + 1]
           /\ LGoto(r, "retry_wait")
      ELSE /\ LGoto(r, "respond_found")
           /\ UNCHANGED attempt

\* the for loop of line 1585 goes to its next attempt, or ends
NextAttempt(r) ==
    IF attempt[r] < max_retries
      THEN /\ attempt' = [attempt EXCEPT ![r] = attempt[r] + 1]
           /\ LGoto(r, "retry_wait")
      ELSE /\ LGoto(r, "respond_found")
           /\ UNCHANGED attempt

\* launch_game, lines 1594-1612: the process is looked up again; if found,
\* readiness and foreground are tried again
LRetryFind(r) ==
    /\ lpc[r] = "retry_find"
    /\ LET found == FindProcessByName(current_game_process_name, ProcessTable, TRUE)
       IN  IF found = {}
             THEN /\ actual_process' = [actual_process EXCEPT ![r] = -1]
                  /\ NextAttempt(r)
                  /\ UNCHANGED foreground_confirmed
             ELSE /\ \E p \in found :
                       actual_process' = [actual_process EXCEPT ![r] = p]
                  /\ \E confirmed \in BOOLEAN :
                       /\ foreground_confirmed' =
                             [foreground_confirmed EXCEPT ![r] = confirmed]
                       /\ IF confirmed
                            THEN LGoto(r, "respond_found") /\ UNCHANGED attempt
                            ELSE NextAttempt(r)
    /\ UNCHANGED <<controller, matching, aside, launch_cancel_flag, agent_globals,
                   path_kind, new_process_name, polls, lres,
                   cancel_at>>

\* launch_game, lines 1614-1632 and 1645-1649: the response of the branch
\* "process detected"; actual_process.pid and .status() raise when the retry
\* loop left actual_process None or the process is gone, which the handler's
\* except clause answers with 500
LRespondFound(r) ==
    /\ lpc[r] = "respond_found"
    /\ ReturnUnlocked(r,
          IF actual_process[r] = -1 \/ pstate[actual_process[r]] # "running"
            THEN "error500"
            ELSE IF foreground_confirmed[r] THEN "success" ELSE "warning")
    /\ UNCHANGED <<controller, matching, aside, launch_cancel_flag,
                   current_game_process_name, game_process, pstate>>

\* launch_game, lines 1634-1645: the response of the branch "not detected"
LRespondNone(r) ==
    /\ lpc[r] = "respond_none"
    /\ ReturnUnlocked(r, "warning")
    /\ UNCHANGED <<controller, matching, aside, launch_cancel_flag,
                   current_game_process_name, game_process, pstate>>

\* the /launch request handler
LaunchGame(r) ==
    \/ LArrive(r) \/ LAcquire(r) \/ LReap(r) \/ LSpawn(r)
    \/ LFind(r) \/ LWait(r) \/ LWindow(r) \/ LForeground(r)
    \/ LRetryWait(r) \/ LRetryFind(r) \/ LRespondFound(r) \/ LRespondNone(r)

\* cancel_launch, lines 1408-1417: Event.set() sets the flag and notifies a
\* thread blocked in Event.wait(), whose wait then returns True whatever
\* becomes of the flag; a holder at a wait is blocked in it or about to call it
CancelLaunch ==
    /\ launch_cancel_flag' = TRUE
    /\ cancel_at' \in
          IF game_lock = 0 THEN {"none"}
          ELSE IF lpc[game_lock] \notin {"wait", "retry_wait"}
                 THEN {lpc[game_lock]}
          ELSE IF cancel_at = "notified" THEN {"notified"}
          ELSE {lpc[game_lock], "notified"}
    /\ UNCHANGED <<controller, matching, aside, agent_globals, lpc, launch_locals, lres>>

\* the game of a Steam launch comes up some time after os.startfile
GameStarts(r) ==
    /\ pstate[r] = "starting"
    /\ pstate' = [pstate EXCEPT ![r] = "running"]
    /\ UNCHANGED <<controller, matching, aside, launch_cancel_flag, game_lock,
                   current_game_process_name, game_process, lpc, launch_locals,
                   lres, cancel_at>>

\* a process of the SUT exits by itself
ProcessExits(p) ==
    /\ pstate[p] = "running"
    /\ pstate' = [pstate EXCEPT ![p] = "exited"]
    /\ UNCHANGED <<controller, matching, aside, launch_cancel_flag, game_lock,
                   current_game_process_name, game_process, lpc, launch_locals,
                   lres, cancel_at>>

\* the controller as constructed, with no job configured
ControllerIdle ==
    /\ SingleInit
    /\ config_path = ""
    /\ game_path = ""
    /\ run_count = 1
    /\ run_delay = 0
    /\ StateInit

\* the agent starts on a SUT where the game's launcher runs or does not
AgentInit ==
    /\ ControllerIdle
    /\ AgentStart
    /\ pstate \in { f \in [0..MaxLaunches -> {"none", "running"}] :
                      \A p \in Launches : f[p] = "none" }
    /\ MatchingIdle
    /\ LoggingIdle
    /\ FleetIdle

AgentNext ==
    \/ \E r \in Launches : LaunchGame(r)
    \/ CancelLaunch
    \/ \E r \in Launches : GameStarts(r)
    \/ \E p \in 0..MaxLaunches : ProcessExits(p)

AgentSpec == AgentInit /\ [][AgentNext]_vars

\* perform_action, lines 1817-1835, action terminate_game: under game_lock
\* the tracked game is terminated by name and by handle; the tracked name and
\* handle stay as they are
TerminateGame ==
    /\ game_lock = 0
    /\ pstate' =
          [p \in DOMAIN pstate |->
             IF /\ pstate[p] = "running"
                /\ \/ /\ current_game_process_name # << >>
                      /\ p \in TerminateProcessByName(
                                   current_game_process_name, ProcessTable)
                   \/ game_process # 0 /\ p = game_process
               THEN "exited" ELSE pstate[p]]
    /\ UNCHANGED <<controller, matching, aside, launch_cancel_flag, game_lock,
                   current_game_process_name, game_process, lpc, launch_locals,
                   lres, cancel_at>>

\* the agent with terminate_game requests, where the thread of every request
\* keeps being scheduled; a process ends when it is terminated
AgentFairNext ==
    \/ \E r \in Launches : LaunchGame(r)
    \/ CancelLaunch
    \/ \E r \in Launches : GameStarts(r)
    \/ TerminateGame

AgentFairInit == AgentInit /\ pstate[0] = "none"

AgentFairSpec ==
    /\ AgentFairInit
    /\ [][AgentFairNext]_vars
    /\ \A r \in Launches : WF_vars(LaunchGame(r))

\* ------------------------------------------- SUT agent: process detection
\* the processes psutil.process_iter can report: the launcher, the game, the
\* game with another case and an unreadable exe, the game with an unreadable
\* name, a process named like the game without its extension, and further
\* instances of the game
ProcRecord(p) ==
    CASE p = 1 -> [pid |-> p, name |-> LauncherExe, exe |-> LauncherExe]
      [] p = 2 -> [pid |-> p, name |-> GameExe, exe |-> GameExe]
      [] p = 3 -> [pid |-> p, name |-> Lower(GameExe), exe |-> << >>]
      [] p = 4 -> [pid |-> p, name |-> << >>, exe |-> GameExe]
      [] p = 5 -> [pid |-> p, name |-> SplitExt(GameExe), exe |-> SplitExt(GameExe)]
      [] OTHER -> [pid |-> p, name |-> GameExe, exe |-> GameExe]

\* the names a caller looks for
TargetNames == {<< >>, GameExe, Lower(GameExe), SplitExt(GameExe), LauncherExe}

\* check_process, lines 948-975, and the other callers of
\* find_process_by_name(name) (870, 1539, 1595, 1861): an empty name is
\* refused, else the first exact match of the iteration is the process
\* reported, and none is "not running"
CheckProcess ==
    /\ find_result = <<"none">>
    /\ IF find_name = << >>
         THEN find_result' = <<"error400">>
         ELSE LET found == FindProcessByName(find_name, find_table, TRUE)
              IN  IF found = {}
                    THEN find_result' = <<"not_running">>
                    ELSE \E p \in found : find_result' = <<"running", p>>
    /\ UNCHANGED <<controller, launch_cancel_flag, agent, aside, find_name,
                   find_table>>

MatchInit ==
    /\ ControllerIdle
    /\ AgentIdle
    /\ find_name \in TargetNames
    /\ find_table \in SUBSET { ProcRecord(p) : p \in 1..MaxProcs }
    /\ find_result = <<"none">>
    /\ LoggingIdle
    /\ FleetIdle

\* kill_process, lines 978-998: an empty name is refused, else every process
\* terminate_process_by_name selects is terminated and the answer is success
KillProcess ==
    /\ find_result = <<"none">>
    /\ IF find_name = << >>
         THEN find_result' = <<"error400">>
         ELSE find_result' =
                  <<"killed", TerminateProcessByName(find_name, find_table)>>
    /\ UNCHANGED <<controller, launch_cancel_flag, agent, aside, find_name,
                   find_table>>

MatchNext == CheckProcess \/ KillProcess

MatchSpec == MatchInit /\ [][MatchNext]_vars

\* -------------------------------------------- the workers' log handlers
nonlog == <<controller, launch_cancel_flag, agent, matching, fleet>>

\* ThreadFilter.filter, lines 76-78, that lets every record pass
ThreadFilterPassAll(h, record_thread) == TRUE

\* ThreadFilter.filter, lines 76-78
ThreadFilter(h, record_thread) == record_thread = h.thread_id

\* Logger.handle on a logger with the handlers hs, for a record made on the
\* thread record_thread of controller origin's worker: every handler whose
\* filter passes the record puts it on its controller's log_queue (line 67)
Emit(hs, record_thread, origin) ==
    [q \in SUTs |->
        IF \E h \in hs : h.sut = q /\ ThreadFilter(h, record_thread)
          THEN logging.log_queue[q] \cup {origin}
          ELSE logging.log_queue[q]]

LiveWorkers == { s \in SUTs : logging.pc[s] # "idle" }

\* start_automation, lines 276-312, of controller s, any number of times:
\* refused while its worker is alive; else a thread is started, with an ident
\* no live thread has
LogStart(s) ==
    /\ logging.pc[s] = "idle"
    /\ \E i \in Idents \ { logging.thread_id[w] : w \in LiveWorkers } :
          logging' = [logging EXCEPT !.pc[s] = "start",
                                     !.thread_id[s] = i,
                                     !.serial[s] = 1 - @]
    /\ UNCHANGED nonlog

\* setup_logger, lines 229-272, on the worker thread: the handlers of the
\* SUT's logger are removed, a new handler filtered on this thread is added
\* to it, stored in self.queue_handler and added to the root logger
SetupLogger(s) ==
    /\ logging.pc[s] = "start"
    /\ LET h == Handler(s, logging.serial[s], logging.thread_id[s])
       IN  logging' = [logging EXCEPT
                          !.sut_handlers[logging.name[s]] = {h},
                          !.queue_handler[s] = h,
                          !.root_handlers = @ \cup {h},
                          !.pc[s] = "body"]
    /\ UNCHANGED nonlog

\* a record is logged on the worker thread of s, by a module through the root
\* logger or by the controller through self.logger
LogRecord(s, via) ==
    /\ logging.pc[s] = "body"
    /\ LET hs == IF via = "root" THEN logging.root_handlers
                 ELSE logging.sut_handlers[logging.name[s]]
       IN  logging' = [logging EXCEPT
                          !.log_queue = Emit(hs, logging.thread_id[s], s)]
    /\ UNCHANGED nonlog

\* _run_automation, lines 340-351: the mode function returns (the job is
\* completed, failed or stopped) or raises, and the except clause logs the
\* error on self.logger
BodyEnds(s, how) ==
    /\ logging.pc[s] = "body"
    /\ logging' = [logging EXCEPT
                      !.pc[s] = "finally",
                      !.exit_by[s] = how,
                      !.log_queue =
                          IF how = "exception"
                            THEN Emit(logging.sut_handlers[logging.name[s]],
                                      logging.thread_id[s], s)
                            ELSE @]
    /\ UNCHANGED nonlog

\* the cleanup made only when the job ended without an exception
CleanupUnlessRaised(s) ==
    /\ logging.pc[s] = "finally"
    /\ logging' = [logging EXCEPT
                      !.root_handlers =
                          IF logging.exit_by[s] = "exception" THEN @
                          ELSE @ \ {logging.queue_handler[s]},
                      !.pc[s] = "exit"]
    /\ UNCHANGED nonlog

\* _run_automation, lines 353-361, the finally block: self.queue_handler is
\* removed from the root logger, then "Cleaned up" is logged on self.logger
Cleanup(s) ==
    /\ logging.pc[s] = "finally"
    /\ logging' = [logging EXCEPT
                      !.root_handlers =
                          IF logging.queue_handler[s] # NoHandler
                            THEN @ \ {logging.queue_handler[s]} ELSE @,
                      !.pc[s] = "exit",
                      !.log_queue = Emit(logging.sut_handlers[logging.name[s]],
                                         logging.thread_id[s], s)]
    /\ UNCHANGED nonlog

\* the worker thread ends; its ident is free again
ThreadExit(s) ==
    /\ logging.pc[s] = "exit"
    /\ logging' = [logging EXCEPT !.pc[s] = "idle",
                                  !.thread_id[s] = 0,
                                  !.exit_by[s] = "none"]
    /\ UNCHANGED nonlog

\* update_gui, lines 2587-2600: the GUI drains the log queue of s
PollLogQueue(s) ==
    /\ logging.log_queue[s] # {}
    /\ logging' = [logging EXCEPT !.log_queue[s] = {}]
    /\ UNCHANGED nonlog

LogStep(s) ==
    \/ LogStart(s)
    \/ SetupLogger(s)
    \/ \E via \in {"root", "sut"} : LogRecord(s, via)
    \/ \E how \in {"return", "exception"} : BodyEnds(s, how)
    \/ Cleanup(s)
    \/ ThreadExit(s)
    \/ PollLogQueue(s)

\* the names of the controllers: every controller has a name of its own, or
\* controller 2 was added under the name of controller 1, which was removed
\* from the GUI (_remove_sut, lines 2068-2087, does not wait for its worker)
ControllerNames ==
    { [s \in SUTs |-> s], [s \in SUTs |-> IF s = 2 THEN 1 ELSE s] }

LogInit ==
    /\ ControllerIdle
    /\ AgentIdle
    /\ MatchingIdle
    /\ logging \in { LoggingStart(names) : names \in ControllerNames }
    /\ FleetIdle

LogNext == \E s \in SUTs : LogStep(s)

LogSpec == LogInit /\ [][LogNext]_vars

\* ------------------------------------------- the persisted configuration
\* dict.get(key, default)
Get(data, key, default) == IF key \in DOMAIN data THEN data[key] ELSE default

\* the dict data without the keys outside keys
Restrict(data, keys) == [k \in DOMAIN data \cap keys |-> data[k]]

\* str.replace("\\", "/") on the paths of the model
NormalizePath(path) ==
    CASE path = "dir\\cfg" -> "dir/cfg"
      [] path = "dir\\game" -> "dir/game"
      [] OTHER -> path

\* the game_name "Unknown Game" of line 47, among games named 1, 2, ...
UnknownGame == 0

\* GameEntry.to_dict, lines 39-41: asdict(self)
GameEntryToDict(game) ==
    [game_name |-> game.game_name, config_path |-> game.config_path,
     game_path |-> game.game_path, run_count |-> game.run_count,
     run_delay |-> game.run_delay]

\* GameEntry.from_dict with a run-count default of 1
GameEntryFromDictDefaultOne(data) ==
    [game_name |-> Get(data, "game_name", UnknownGame),
     config_path |-> Get(data, "config_path", ""),
     game_path |-> Get(data, "game_path", ""),
     run_count |-> Get(data, "run_count", 1),
     run_delay |-> Get(data, "run_delay", 30)]

\* GameEntry.from_dict, lines 43-52
GameEntryFromDict(data) ==
    [game_name |-> Get(data, "game_name", UnknownGame),
     config_path |-> Get(data, "config_path", ""),
     game_path |-> Get(data, "game_path", ""),
     run_count |-> Get(data, "run_count", 3),
     run_delay |-> Get(data, "run_delay", 30)]

\* the settings of the controller as one value
Controller ==
    [config_path |-> config_path, game_path |-> game_path,
     run_count |-> run_count, run_delay |-> run_delay,
     campaign_mode |-> campaign_mode, campaign |-> campaign,
     delay_between_games |-> delay_between_games,
     continue_on_failure |-> continue_on_failure]

\* SUTController.to_dict that leaves the continue_on_failure key out
ToDictWithoutFlag(c) ==
    [config_path |-> IF c.config_path # "" THEN NormalizePath(c.config_path) ELSE "",
     game_path |-> IF c.game_path # "" THEN NormalizePath(c.game_path) ELSE "",
     run_count |-> c.run_count,
     run_delay |-> c.run_delay,
     campaign_mode |-> c.campaign_mode,
     campaign |-> [i \in 1..Len(c.campaign) |-> GameEntryToDict(c.campaign[i])],
     delay_between_games |-> c.delay_between_games]

\* SUTController.to_dict, lines 923-944; name, ip, port and campaign_name are
\* written as they are and are not followed here
ToDict(c) ==
    [config_path |-> IF c.config_path # "" THEN NormalizePath(c.config_path) ELSE "",
     game_path |-> IF c.game_path # "" THEN NormalizePath(c.game_path) ELSE "",
     run_count |-> c.run_count,
     run_delay |-> c.run_delay,
     campaign_mode |-> c.campaign_mode,
     campaign |-> [i \in 1..Len(c.campaign) |-> GameEntryToDict(c.campaign[i])],
     delay_between_games |-> c.delay_between_games,
     continue_on_failure |-> c.continue_on_failure]

\* SUTController.from_dict, lines 946-971
FromDict(data) ==
    LET campaign_data == Get(data, "campaign", << >>)
    IN  [config_path |-> Get(data, "config_path", ""),
         game_path |-> Get(data, "game_path", ""),
         run_count |-> Get(data, "run_count", 3),
         run_delay |-> Get(data, "run_delay", 30),
         campaign_mode |-> Get(data, "campaign_mode", FALSE),
         delay_between_games |-> Get(data, "delay_between_games", 120),
         continue_on_failure |-> Get(data, "continue_on_failure", TRUE),
         campaign |-> [i \in 1..Len(campaign_data) |->
                          GameEntryFromDict(campaign_data[i])]]

\* the controller c becomes the controller of the GUI
Install(c) ==
    /\ config_path' = c.config_path
    /\ game_path' = c.game_path
    /\ run_count' = c.run_count
    /\ run_delay' = c.run_delay
    /\ campaign_mode' = c.campaign_mode
    /\ campaign' = c.campaign
    /\ delay_between_games' = c.delay_between_games
    /\ continue_on_failure' = c.continue_on_failure

unsaved == <<thread, stop_event, status, current_run, total_runs, failed_games,
             logger, current_process_id, kills, pc, locals, gui_pc, runs,
             launch_cancel_flag, agent, matching, aside>>

\* save_config, line 2007, then load_config, lines 2045-2046, on the saved
\* file: the controller is replaced by from_dict(to_dict(controller))
SaveAndLoad ==
    /\ gui_ret[1] = "none"
    /\ Install(FromDict(ToDict(Controller)))
    /\ gui_ret' = <<"save_load", "True">>
    /\ UNCHANGED unsaved

\* the keys of a persisted SUT and of a persisted game entry
SutKeys == {"config_path", "game_path", "run_count", "run_delay", "campaign_mode",
            "campaign", "delay_between_games", "continue_on_failure"}
GameKeys == {"game_name", "config_path", "game_path", "run_count", "run_delay"}
CampaignKeys == {"games", "delay_between_games", "continue_on_failure"}

\* a complete game entry of a file, and the entries with keys missing
FullGame == GameEntryToDict(GameEntry(1, MaxRuns, MaxDelay))
PersistedGames == { Restrict(FullGame, keys) : keys \in SUBSET GameKeys }

\* a complete SUT of a configuration file whose campaign is games, and the
\* SUTs with keys missing
FullSut(games) ==
    [config_path |-> "cfg", game_path |-> "game", run_count |-> MaxRuns,
     run_delay |-> MaxDelay, campaign_mode |-> TRUE, campaign |-> games,
     delay_between_games |-> MaxDelay, continue_on_failure |-> FALSE]
PersistedSuts ==
    { Restrict(FullSut(<<game>>), keys) :
         game \in PersistedGames, keys \in SUBSET SutKeys }

\* a complete campaign file and the files with keys missing
FullCampaignFile(games) ==
    [games |-> games, delay_between_games |-> MaxDelay,
     continue_on_failure |-> FALSE]
PersistedCampaigns ==
    { Restrict(FullCampaignFile(<<game>>), keys) :
         game \in PersistedGames, keys \in SUBSET CampaignKeys }

\* load_config, lines 2045-2053, on a SUT of a configuration file; the call
\* is kept with the file it was made on
LoadSut(data) ==
    /\ gui_ret[1] = "none"
    /\ Install(FromDict(data))
    /\ gui_ret' = <<"load_config", data>>
    /\ UNCHANGED unsaved

\* _load_campaign, lines 2507-2523, on a campaign file
LoadCampaign(data) ==
    /\ gui_ret[1] = "none"
    /\ delay_between_games' = Get(data, "delay_between_games", 120)
    /\ continue_on_failure' = Get(data, "continue_on_failure", TRUE)
    /\ LET games == Get(data, "games", << >>)
       IN  campaign' = [i \in 1..Len(games) |-> GameEntryFromDict(games[i])]
    /\ campaign_mode' = TRUE
    /\ gui_ret' = <<"load_campaign", data>>
    /\ UNCHANGED <<config_path, game_path, run_count, run_delay, unsaved>>

\* the controllers of the GUI before a file is saved or loaded
StoreInit ==
    /\ run_delay \in Delays
    /\ campaign \in Campaigns(run_delay)
    /\ campaign_mode = (Len(campaign) > 0)
    /\ config_path \in {"", "cfg", "dir\\cfg"}
    /\ game_path = (CASE config_path = "" -> ""
                      [] config_path = "cfg" -> "game"
                      [] OTHER -> "dir\\game")
    /\ run_count \in RunCounts
    /\ delay_between_games \in Delays
    /\ continue_on_failure \in BOOLEAN
    /\ StateInit
    /\ AgentIdle
    /\ MatchingIdle
    /\ LoggingIdle
    /\ FleetIdle

StoreNext ==
    \/ SaveAndLoad
    \/ \E data \in PersistedSuts : LoadSut(data)
    \/ \E data \in PersistedCampaigns : LoadCampaign(data)

StoreSpec == StoreInit /\ [][StoreNext]_vars

\* ------------------------------------------------------------------ claims
TerminalStatus == {"Completed", "Failed", "Stopped", "Error"}
RunPcs == {"r_begin", "r_launch_wait", "r_init_check", "r_exec", "r_set_failed"}
DelayPcs == {"s_delay", "c_run_delay", "c_game_delay"}

\* C1: a start_automation call made while the worker thread is alive returns
\* False and changes neither the status, the stop signal, current_run,
\* total_runs, the failed-games list nor the worker.
C1_StartWhileAliveRejected ==
    [][(StartAutomation /\ ThreadIsAlive) =>
          /\ gui_ret' = <<"start", "False">>
          /\ UNCHANGED <<status, stop_event, current_run, total_runs,
                         failed_games, thread, pc, locals>>]_vars

\* a start has been rejected while the job's worker is alive and Running
C1_Witness ==
    /\ ThreadIsAlive
    /\ gui_ret = <<"start", "False">>
    /\ status = "Running"
    /\ current_run > 0

\* C2: at most one worker thread of the controller is alive at any time, and a
\* worker comes to life only in the step of a start_automation call that
\* returns True, made while no worker is alive: a rejected start is dropped.
C2_AtMostOneWorker ==
    /\ [](Cardinality(AliveWorkers) <= 1)
    /\ [][\A t \in Threads :
             (pc[t] = "unborn" /\ pc'[t] # "unborn") =>
                 /\ AliveWorkers = {}
                 /\ gui_ret' = <<"start", "True">>
                 /\ thread' = t]_vars

\* the second job runs after the first has ended and a start was rejected
\* during it
C2_Witness ==
    /\ thread = 2
    /\ pc[1] = "done"
    /\ Alive(2)
    /\ gui_ret = <<"start", "False">>

\* C3: a job whose stop signal was set before the worker exited does not end
\* in status Completed.
C3_NoCompletedAfterStop ==
    \A t \in Threads :
        (pc[t] = "exit" /\ stop_event /\ gui_pc = "idle") => status # "Completed"

\* C4: once the stop signal is set the worker passes no further pre-run or
\* pre-game stop check (it starts no run and no game), and a worker step taken
\* inside an inter-run or inter-game delay leaves the delay and the job with
\* status Stopped.
C4_StopEndsJob ==
    [][\A t \in Threads :
          /\ (stop_event /\ pc'[t] # pc[t]) => pc'[t] \notin {"r_begin", "c_load"}
          /\ (/\ stop_event
              /\ pc[t] \in DelayPcs
              /\ <<pc'[t], tick'[t]>> # <<pc[t], tick[t]>>)
                => (pc'[t] = "exit" /\ status' = "Stopped")]_vars

\* the stop signal is set while the worker is inside a delay, with runs or
\* games still to come
C4_Witness ==
    \E t \in Threads : pc[t] \in DelayPcs /\ stop_event /\ Len(runs) > 0

\* C5: a stop_automation call that finds the worker alive returns with the
\* stop signal set, its status write writes Stopped, and a stop_automation
\* step taken when the signal is set and the status is Stopped leaves both.
C5_StopIdempotent ==
    /\ []((gui_ret[1] = "stop" /\ gui_ret[2] \in {"True", "raised"}) => stop_event)
    /\ [][(gui_pc = "stop_status" /\ gui_pc' # gui_pc) => status' = "Stopped"]_vars
    /\ [][(StopAutomation /\ stop_event /\ status = "Stopped") =>
             (stop_event' /\ status' = "Stopped")]_vars

\* C6: the step of stop_automation that notifies the agent, taken while the
\* worker is blocked in the remote launch call, arms the agent's cancel flag.
C6_StopCancelsLaunch ==
    [][(/\ gui_pc = "stop_cancel"
        /\ gui_pc' = "idle"
        /\ \E t \in Threads : pc[t] = "r_launch_wait") => launch_cancel_flag']_vars

\* C7: a status of Completed, Failed, Stopped or Error changes only in the
\* step of a start_automation call that returns True, and then to Running.
C7_TerminalUntilRestart ==
    [][(status \in TerminalStatus /\ status' # status) =>
          /\ status' = "Running"
          /\ gui_ret' = <<"start", "True">>
          /\ thread' # thread]_vars

\* the runs of the current job that failed, and the games whose config did
\* not load
FailedRuns == SelectSeq(runs, LAMBDA e : e[3] = "failed")
ConfigFailures == SelectSeq(runs, LAMBDA e : e[3] = "noconfig")

\* the worker of a campaign job has finished and no stop was requested
CampaignFinished ==
    /\ thread # 0
    /\ pc[thread] \in {"exit", "done"}
    /\ InCampaign
    /\ ~stop_event

\* every game was visited, in campaign order
VisitedInOrder ==
    /\ \A g \in 1..Len(campaign) : \E i \in 1..Len(runs) : runs[i][1] = g
    /\ \A i, j \in 1..Len(runs) : i < j => runs[i][1] <= runs[j][1]

\* C8 as stated: with continue_on_failure and no stop request every game is
\* visited in order and the failed-games list is as long as the number of
\* run failures.
C8_FailedCountIsRunFailures ==
    (CampaignFinished /\ continue_on_failure) =>
        /\ VisitedInOrder
        /\ Len(failed_games) = Len(FailedRuns)

\* C8 amended: with continue_on_failure and no stop request every game is
\* visited in order and the failed-games list is as long as the number of
\* run failures plus the number of games whose workflow config did not load.
C8_FailedCountAmended ==
    (CampaignFinished /\ continue_on_failure) =>
        /\ VisitedInOrder
        /\ Len(failed_games) = Len(FailedRuns) + Len(ConfigFailures)

\* a two-game campaign has finished in which the first game failed a run and
\* the second game's config did not load
C8_Witness ==
    /\ CampaignFinished /\ continue_on_failure
    /\ Len(campaign) = 2
    /\ Len(FailedRuns) = 1 /\ FailedRuns[1][1] = 1
    /\ Len(ConfigFailures) = 1
    /\ Len(failed_games) = 2

\* a failed run is on record for the current campaign job, which runs
\* without continue_on_failure
FailFast ==
    /\ thread # 0
    /\ InCampaign
    /\ ~continue_on_failure
    /\ Len(FailedRuns) > 0

\* the failed run is the only one and the last thing the job did: no run and
\* no game was started after it
NothingAfterFailure ==
    /\ runs[Len(runs)][3] = "failed"
    /\ Len(FailedRuns) = 1
    /\ pc[thread] \notin RunPcs \cup {"c_load"}

\* C9 as stated: without continue_on_failure nothing is started after the
\* first failing run and the job's final status is Failed.
C9_FailFastEndsFailed ==
    FailFast =>
        /\ NothingAfterFailure
        /\ pc[thread] \in {"exit", "done"} => status = "Failed"

\* C9 amended: without continue_on_failure nothing is started after the first
\* failing run; the final status is Failed when no stop was requested, and
\* Failed or Stopped otherwise.
C9_FailFastAmended ==
    FailFast =>
        /\ NothingAfterFailure
        /\ pc[thread] \in {"exit", "done"} =>
              /\ status \in {"Failed", "Stopped"}
              /\ ~stop_event => status = "Failed"

\* a two-game campaign was abandoned after a failing run of its first game
C9_Witness ==
    /\ FailFast
    /\ pc[thread] = "exit"
    /\ Len(campaign) = 2
    /\ Len(FailedRuns) = 1 /\ FailedRuns[1][1] = 1
    /\ status = "Failed"
    /\ ~stop_event

\* the "<game> (Run <n>)" entries of the failed-games list
RunEntries == SelectSeq(failed_games, LAMBDA e : Len(e) = 3)
\* one such entry per failed run, in order of occurrence
ExpectedRunEntries ==
    [i \in 1..Len(FailedRuns) |-> FailedRunEntry(FailedRuns[i][1], FailedRuns[i][2])]

\* the scenario: three games of one run each, game 2 fails its run, the other
\* games' runs do not fail
ScenarioOutcome ==
    /\ campaign = ScenarioCampaign(run_delay)
    /\ FailedRuns = << <<2, 1, "failed">> >>
    /\ Len(ConfigFailures) = 0

\* C10: a campaign with continue_on_failure in which some run failed and no
\* stop was requested ends Completed with one "<game> (Run <n>)" entry per
\* failed run, in order; in the scenario the list is <<"Game2 (Run 1)">> and
\* games 1 and 3 execute their run.
C10_PartialSuccess ==
    (CampaignFinished /\ continue_on_failure /\ Len(FailedRuns) > 0) =>
        /\ status = "Completed"
        /\ RunEntries = ExpectedRunEntries
        /\ ScenarioOutcome =>
              /\ failed_games = << FailedRunEntry(2, 1) >>
              /\ runs = << <<1, 1, "ok">>, <<2, 1, "failed">>, <<3, 1, "ok">> >>

\* the scenario's campaign has finished
C10_Witness ==
    /\ CampaignFinished /\ continue_on_failure
    /\ ScenarioOutcome
    /\ status = "Completed"
    /\ failed_games = << FailedRunEntry(2, 1) >>

\* the worker is back from a run function
BackFromRun(t) == pc[t] \in {"s_after_run", "c_after_run"}

\* C11: a kill request is sent only when the status is Failed or Stopped, and
\* a worker back from a run whose status is Completed has sent none for it.
C11_NoKillAfterCompleted ==
    /\ [](\A t \in Threads :
             (BackFromRun(t) /\ status = "Completed") => kills = 0)
    /\ [][kills' > kills => status \in {"Failed", "Stopped"}]_vars

\* a run has ended Completed with its game process tracked and not killed
C11_Witness ==
    \E t \in Threads :
        /\ BackFromRun(t)
        /\ status = "Completed"
        /\ current_process_id
        /\ kills = 0
        /\ runs[Len(runs)][3] = "ok"

\* the last run of the job ended Failed or Stopped
LastRunFailedOrStopped ==
    Len(runs) > 0 /\ runs[Len(runs)][3] \in {"failed", "stopped"}

\* C12: when the worker is through with a run that ended Failed or Stopped
\* (it leaves the job, or goes on to the next game) a kill request has been
\* sent for that run.
C12_KillAfterFailedOrStopped ==
    \A t \in Threads :
        (pc[t] \in {"exit", "c_reset"} /\ LastRunFailedOrStopped) => kills > 0

\* the requests between reaping the previous process and returning
InFlightPcs == {"reap", "spawn", "detect", "wait", "window", "foreground",
                "retry_wait", "retry_find", "respond_found", "respond_none"}
InFlight == { r \in Launches : lpc[r] \in InFlightPcs }

\* C13: at most one /launch request is between reaping and returning, it is
\* the holder of game_lock, and the tracked name and handle are written only
\* by a step of that request.
C13_SingleFlight ==
    /\ [](\A r, q \in InFlight : r = q /\ game_lock = r)
    /\ [][<<current_game_process_name, game_process>>' #
             <<current_game_process_name, game_process>>
           => /\ game_lock # 0
              /\ lpc'[game_lock] # lpc[game_lock]]_vars

\* one request is in its detection loop while the next waits for the lock
C13_Witness ==
    /\ lpc[1] = "wait"
    /\ lpc[2] = "lock"
    /\ game_lock = 1
    /\ current_game_process_name = new_process_name[1]

\* request r returns `outcome` in this step
Returns(r, outcome) == lres[r] = "none" /\ lres'[r] = outcome

\* C14: no launch returns cancelled on a cancellation that was armed while
\* an earlier request held the lock, before this one began its launch
\* sequence, and that has not been armed again since.
C14_NoStaleCancel ==
    [][\A r \in Launches : Returns(r, "cancelled") => cancel_at # "stale"]_vars

\* the lock holder takes a step
HolderSteps(r) == game_lock = r /\ lpc'[r] # lpc[r]

\* C15: when /cancel_launch came while the lock holder was in the detection
\* loop (at the lookup or at the wait) and the process is not found, the
\* holder's wait ends with outcome cancelled.
C15_CancelDuringDetection ==
    [][\A r \in Launches :
          (cancel_at \in {"detect", "wait", "notified"} /\ lpc[r] = "wait"
              /\ HolderSteps(r))
             => Returns(r, "cancelled")]_vars

\* the waits of the launch phases 4 to 6
WaitPcs == {"wait", "window", "foreground", "retry_wait"}

\* C16: when /cancel_launch came while the lock holder was inside a wait of
\* phases 4 to 6 and the flag is still set, the holder's next step ends that
\* wait with outcome cancelled.
C16_EveryWaitCancellable ==
    [][\A r \in Launches :
          (/\ lpc[r] \in WaitPcs
           /\ cancel_at \in {lpc[r], "notified"}
           /\ launch_cancel_flag
           /\ HolderSteps(r))
             => Returns(r, "cancelled")]_vars

\* the record of the process that detection reported
Selected == CHOOSE q \in find_table : q.pid = find_result[2]

\* equality of two names without regard to case
SameName(a, b) ==
    Len(a) = Len(b) /\ \A i \in 1..Len(a) : LowerChar(a[i]) = LowerChar(b[i])

\* C17: a process is reported as running only when it is in the process
\* table and its name or its executable's file name equals the target name
\* case-insensitively; the launcher is never reported for the game's name.
C17_ExactMatchOnly ==
    find_result[1] = "running" =>
        /\ \E q \in find_table : q.pid = find_result[2]
        /\ SameName(Selected.name, find_name) \/ SameName(Selected.exe, find_name)
        /\ (find_name \in {GameExe, Lower(GameExe)}) =>
               Selected.name # LauncherExe

\* the game was looked for while its launcher and a case variant of it ran,
\* and the case variant was reported
C17_Witness ==
    /\ find_name = GameExe
    /\ ProcRecord(1) \in find_table
    /\ ProcRecord(2) \notin find_table
    /\ ProcRecord(3) \in find_table
    /\ find_result = <<"running", 3>>

\* request r, whose game was spawned and whose detected process, if it still
\* has one, is alive, returns an outcome other than cancelled
ReturnsUncancelled(r) ==
    /\ lpc[r] \in InFlightPcs \ {"reap", "spawn"}
    /\ actual_process[r] = -1 \/ pstate[actual_process[r]] = "running"
    /\ lres[r] = "none"
    /\ lres'[r] \notin {"none", "cancelled"}

\* C18: a launch that spawned its game and was not cancelled returns success
\* when a process is detected and foreground is confirmed, and warning in
\* every other case; it never returns error.
C18_SuccessOrWarning ==
    [][\A r \in Launches :
          ReturnsUncancelled(r) =>
             lres'[r] = IF actual_process[r] # -1 /\ foreground_confirmed[r]
                          THEN "success" ELSE "warning"]_vars

\* request r reaps while a game is tracked from an earlier launch
ReapsTracked(r) ==
    lpc[r] = "reap" /\ lpc'[r] = "spawn" /\ current_game_process_name # << >>

\* the positions of a request that has spawned its game and not yet returned
SpawnedPcs == InFlightPcs \ {"reap", "spawn"}

tracked == <<current_game_process_name, game_process, pstate, game_lock>>

\* C20: a launch whose target does not resolve returns the 404-class error
\* straight from its arrival, without reaping or spawning: the step leaves
\* the tracked name, the handle, the processes and the lock as they were,
\* and 404 is returned by no other step.
C20_UnresolvedLeavesTracking ==
    [][\A r \in Launches :
          Returns(r, "error404") => (lpc[r] = "unsent" /\ tracked' = tracked)]_vars

\* a launch was refused with 404 while the game of an earlier launch is
\* tracked and running
C20_Witness ==
    /\ lres[2] = "error404"
    /\ lres[1] = "success"
    /\ current_game_process_name = GameExe
    /\ game_process = 1
    /\ pstate[1] = "running"

\* C21: a launch that the agent answers with status warning does not fail
\* the run: the worker goes on to the initialisation wait and the status is
\* not set to Failed.
C21_WarningProceeds ==
    [][\A t \in Threads :
          RLaunchOn(t, "warning") =>
             (pc'[t] = "r_init_check" /\ status' # "Failed")]_vars

\* the launch is answered `answer` and the client reports a launch failure
ReportedAsFailure(t, answer) ==
    RLaunchOn(t, answer) /\ GameLauncherLaunch(answer) = "raises"

\* C22: a launch that the agent answers with status cancelled is told from
\* an error: the launch client reports no launch failure for it, and the
\* step on that answer does not set the status to Failed.
C22_CancelledIsNotFailure ==
    [][\A t \in Threads :
          RLaunchOn(t, "cancelled") =>
             /\ ~ReportedAsFailure(t, "cancelled")
             /\ status' # "Failed"
             /\ ~RLaunchOn(t, "error")]_vars

\* ------------------------------------- the controller on a faulty transport
\* NetworkManager.__init__, modules/network.py lines 17-55, raises
\* ConnectionError out of _run_simple_automation's line 632: the branch of
\* RBegin that leaves the run without passing its finally block
ConnectionFails(t) == RBegin(t) /\ pc'[t] = AfterRun

\* the POST of the launch request fails in the transport (network.py 193-203)
LaunchTransportFails(t) == RLaunchOn(t, "transport")

TransportFailure(t) == ConnectionFails(t) \/ LaunchTransportFails(t)

\* the steps of a run when the transport is the only thing that fails: no
\* Steam login failure, a launch answered success, an executor that succeeds
\* unless it is stopped
TransportRBegin(t) == RBegin(t) /\ (runs' # runs => pc'[t] = AfterRun)
TransportRLaunchReturn(t) ==
    \E answer \in {"success", "transport"} : RLaunchOn(t, answer)
TransportRExec(t) ==
    /\ RExec(t)
    /\ pc'[t] # "r_set_failed"
    /\ runs'[Len(runs')][3] # "failed"

TransportWorker(t) ==
    \/ WStart(t) \/ WExit(t)
    \/ SLoad(t) \/ SRunCheck(t) \/ SAfterRun(t) \/ SFailedCheck(t)
    \/ SDelay(t) \/ SEnd(t) \/ SComplete(t)
    \/ CGameCheck(t) \/ CLoad(t) \/ CRunCheck(t) \/ CAfterRun(t)
    \/ CFailedCheck(t) \/ CReset(t) \/ CRunDelay(t) \/ CGameDelay(t)
    \/ CEnd(t) \/ CComplete(t)
    \/ TransportRBegin(t) \/ TransportRLaunchReturn(t) \/ RInitCheck(t)
    \/ TransportRExec(t) \/ RFinally(t)

\* one job is started; the calls made while it runs and after it are refused
\* or find it finished
TransportStart == StartAutomation /\ (thread' # thread => thread = 0)

TransportNext ==
    \/ TransportStart
    \/ StopAutomation
    \/ \E t \in Threads : TransportWorker(t)

TransportSpec == Init /\ [][TransportNext]_vars

\* ------------------------------------------------ the job under fairness
\* one job whose worker thread keeps being scheduled: every remote call and
\* every executor invocation returns (each is one step of the worker), and
\* the delays count their seconds down
JobNext ==
    \/ TransportStart
    \/ StopAutomation
    \/ \E t \in Threads : Worker(t)

\* the jobs followed: a single game, or a campaign whose games have the same
\* run count and whose two delays are equal
JobInit ==
    /\ Init
    /\ campaign_mode =>
           /\ delay_between_games = run_delay
           /\ \A i \in 1..Len(campaign) :
                  campaign[i].run_count = campaign[1].run_count

JobSpec ==
    /\ JobInit
    /\ [][JobNext]_vars
    /\ \A t \in Threads : WF_vars(Worker(t))

\* ------------------------------------------------- campaign edits (GUI thread)
\* what an edit of the campaign leaves alone
unedited == <<config_path, game_path, run_count, run_delay, delay_between_games,
              continue_on_failure, thread, stop_event, status, current_run,
              total_runs, failed_games, logger, current_process_id, kills, pc,
              locals, gui_pc, gui_ret, runs, launch_cancel_flag, agent,
              matching, aside>>

\* list.pop(index) and the swap of two list positions (positions from 1)
RemoveAt(c, i) == SubSeq(c, 1, i - 1) \o SubSeq(c, i + 1, Len(c))
Swap(c, i, j) == [c EXCEPT ![i] = c[j], ![j] = c[i]]

\* add_game_to_campaign, lines 974-978
AddGameToCampaign(game_entry) ==
    /\ gui_pc = "idle"
    /\ campaign' = Append(campaign, game_entry)
    /\ campaign_mode' = TRUE
    /\ UNCHANGED unedited

\* remove_game_from_campaign, lines 980-986 (index + 1 is the position)
RemoveGameFromCampaign(index) ==
    /\ gui_pc = "idle"
    /\ IF 0 <= index /\ index < Len(campaign)
         THEN /\ campaign' = RemoveAt(campaign, index + 1)
              /\ campaign_mode' =
                     IF Len(campaign) = 1 THEN FALSE ELSE campaign_mode
         ELSE UNCHANGED <<campaign, campaign_mode>>
    /\ UNCHANGED unedited

\* move_game_up, lines 988-991
MoveGameUp(index) ==
    /\ gui_pc = "idle"
    /\ IF index > 0
         THEN campaign' = Swap(campaign, index + 1, index)
         ELSE UNCHANGED campaign
    /\ UNCHANGED <<campaign_mode, unedited>>

\* move_game_down, lines 993-996
MoveGameDown(index) ==
    /\ gui_pc = "idle"
    /\ IF index < Len(campaign) - 1
         THEN campaign' = Swap(campaign, index + 1, index + 2)
         ELSE UNCHANGED campaign
    /\ UNCHANGED <<campaign_mode, unedited>>

\* clear_campaign, lines 998-1002
ClearCampaign ==
    /\ gui_pc = "idle"
    /\ campaign' = << >>
    /\ campaign_mode' = FALSE
    /\ UNCHANGED unedited

\* _edit_game_dialog.on_save, lines 2407-2411: the entry at `index` takes the
\* dialog's values; config_path is not editable
OnSave(index, game_name, game_path_, run_count_, run_delay_) ==
    /\ gui_pc = "idle"
    /\ campaign' = [campaign EXCEPT ![index + 1] =
                       [@ EXCEPT !.game_name = game_name,
                                 !.game_path = game_path_,
                                 !.run_count = run_count_,
                                 !.run_delay = run_delay_]]
    /\ UNCHANGED <<campaign_mode, unedited>>

\* the entry the worker's loop holds is campaign[game_index], and its run
\* range was built from that entry's run_count: this stays so under the
\* edits of the list positions behind the worker's, and under a rename of the
\* entry in use. First(t) is the first index (from 0) behind worker t.
Behind == IF ThreadIsAlive
            THEN IF game_index[thread] = 0 THEN 1 ELSE game_index[thread]
            ELSE 0
GameNames == 1..(MaxGames + 1)

\* the user's edits while a campaign is configured or runs
EditAdd ==
    /\ Len(campaign) < MaxGames
    /\ \E n \in GameNames, rc \in RunCounts :
           AddGameToCampaign(GameEntry(n, rc, run_delay))
EditRemove ==
    \E index \in Behind..(Len(campaign) - 1) : RemoveGameFromCampaign(index)
EditMoveUp ==
    \E index \in (Behind + 1)..(Len(campaign) - 1) : MoveGameUp(index)
EditMoveDown ==
    \E index \in Behind..(Len(campaign) - 2) : MoveGameDown(index)
EditClear == ~ThreadIsAlive /\ Len(campaign) > 0 /\ ClearCampaign
EditSaveOther ==
    \E index \in Behind..(Len(campaign) - 1) :
        \E n \in GameNames, rc \in RunCounts :
            OnSave(index, n, campaign[index + 1].game_path, rc,
                   campaign[index + 1].run_delay)
EditRenameInUse ==
    /\ ThreadIsAlive /\ game_index[thread] > 0
    /\ \E n \in GameNames :
           LET e == campaign[game_index[thread]]
           IN  OnSave(game_index[thread] - 1, n, e.game_path, e.run_count,
                      e.run_delay)

\* the steps of a job in which nothing fails
EditRBegin(t) == RBegin(t) /\ Len(runs') = Len(runs)
EditRLaunchReturn(t) == RLaunchOn(t, "success")
EditCLoad(t) == CLoad(t) /\ runs' = runs

EditWorker(t) ==
    \/ WStart(t) \/ WExit(t)
    \/ CGameCheck(t) \/ EditCLoad(t) \/ CRunCheck(t) \/ CAfterRun(t)
    \/ CFailedCheck(t) \/ CEnd(t) \/ CComplete(t)
    \/ EditRBegin(t) \/ EditRLaunchReturn(t) \/ RInitCheck(t)
    \/ TransportRExec(t) \/ RFinally(t)

EditInit ==
    /\ campaign_mode = TRUE
    /\ run_delay = 0
    /\ campaign \in UNION { CampaignsOf(n, 0) : n \in 1..MaxGames }
    /\ config_path = ""
    /\ game_path = ""
    /\ run_count = 1
    /\ delay_between_games = 0
    /\ continue_on_failure = TRUE
    /\ StateInit
    /\ AgentIdle
    /\ MatchingIdle
    /\ LoggingIdle
    /\ FleetIdle

EditNext ==
    \/ TransportStart
    \/ EditAdd \/ EditRemove \/ EditMoveUp \/ EditMoveDown \/ EditClear
    \/ EditSaveOther \/ EditRenameInUse
    \/ \E t \in Threads : EditWorker(t)

EditSpec == EditInit /\ [][EditNext]_vars

\* ------------------------------------------- the controllers side by side
\* Objects are referred to by number: events[r] is the state of the
\* threading.Event r, lists[r] the content of the list object r.
nonfleet == <<controller, launch_cancel_flag, agent, matching, logging>>

\* a list object never handed out by __init__: the `[]` of _run_campaign
FreshList(c) == MaxSuts + c

\* SUTController.__init__ that hands every controller the same Event and the
\* same failed-games list
SUTControllerInitShared(c, mode) ==
    [ status |-> "Idle", current_run |-> 0, total_runs |-> 1,
      stop_event |-> 1, failed_games |-> 1, logger |-> FALSE,
      campaign_mode |-> mode, pc |-> "none" ]

\* SUTController.__init__, lines 173-227: threading.Event() and [] are
\* evaluated in the call, so every controller has objects of its own
SUTControllerInit(c, mode) ==
    [ status |-> "Idle", current_run |-> 0, total_runs |-> 1,
      stop_event |-> c, failed_games |-> c, logger |-> FALSE,
      campaign_mode |-> mode, pc |-> "none" ]

\* MultiSUTGUI.sut_controllers after the SUTs were added
FleetStart(modes) ==
    [ ctl    |-> [c \in SUTs |-> SUTControllerInit(c, modes[c])],
      events |-> [r \in SUTs |-> FALSE],
      lists  |-> [r \in 1..(2 * MaxSuts) |-> << >>],
      gui    |-> <<"idle", 0>> ]

\* self.thread and self.thread.is_alive() of controller c
WorkerAlive(f, c) == f.ctl[c].pc # "none"

\* start_automation of controller c, lines 274-312, on the fleet f; a
\* controller with an empty campaign or no config is not `configured`, and
\* a configured one has a job of one run
StartAutomationOn(f, c, configured) ==
    LET k == f.ctl[c]
    IN  IF WorkerAlive(f, c) THEN f
        ELSE IF ~configured THEN [f EXCEPT !.ctl[c].status = "Error"]
        ELSE [f EXCEPT !.events[k.stop_event] = FALSE,
                       !.ctl[c].status = "Running",
                       !.ctl[c].current_run = 0,
                       !.ctl[c].total_runs = 1,
                       !.ctl[c].pc = "start"]

\* stop_automation of controller c raises: line 317 dereferences self.logger,
\* which is None until the first worker has gone through setup_logger
StopRaises(f, c) == WorkerAlive(f, c) /\ ~f.ctl[c].logger

\* stop_automation of controller c, lines 314-332, on the fleet f
StopAutomationOn(f, c) ==
    LET k == f.ctl[c]
    IN  IF WorkerAlive(f, c) /\ k.logger
          THEN [f EXCEPT !.events[k.stop_event] = TRUE,
                         !.ctl[c].status = "Stopped"]
          ELSE f

\* _start_sut, lines 1637-1675, and _stop_sut, lines 1677-1682
StartSut(c) ==
    /\ fleet.gui[1] = "idle"
    /\ \E configured \in BOOLEAN :
           fleet' = StartAutomationOn(fleet, c, configured)
    /\ UNCHANGED nonfleet
StopSut(c) ==
    /\ fleet.gui[1] = "idle"
    /\ fleet' = StopAutomationOn(fleet, c)
    /\ UNCHANGED nonfleet

\* the for loop of start_all / stop_all moves to its next controller
LoopOn(f, what) ==
    IF f.gui[2] < MaxSuts THEN [f EXCEPT !.gui = <<what, f.gui[2] + 1>>]
                          ELSE [f EXCEPT !.gui = <<"idle", 0>>]

\* start_all, lines 1920-1941: every controller whose status is Idle is started
StartAllBegin ==
    /\ fleet.gui[1] = "idle"
    /\ fleet' = [fleet EXCEPT !.gui = <<"start_all", 1>>]
    /\ UNCHANGED nonfleet
StartAllStep ==
    /\ fleet.gui[1] = "start_all"
    /\ LET c == fleet.gui[2]
       IN  IF fleet.ctl[c].status = "Idle"
             THEN fleet' = LoopOn(StartAutomationOn(fleet, c, TRUE), "start_all")
             ELSE fleet' = LoopOn(fleet, "start_all")
    /\ UNCHANGED nonfleet

\* stop_all, lines 1943-1946: the loop ends where stop_automation raises
StopAllBegin ==
    /\ fleet.gui[1] = "idle"
    /\ fleet' = [fleet EXCEPT !.gui = <<"stop_all", 1>>]
    /\ UNCHANGED nonfleet
StopAllStep ==
    /\ fleet.gui[1] = "stop_all"
    /\ LET c == fleet.gui[2]
       IN  IF StopRaises(fleet, c)
             THEN fleet' = [fleet EXCEPT !.gui = <<"idle", 0>>]
             ELSE fleet' = LoopOn(StopAutomationOn(fleet, c), "stop_all")
    /\ UNCHANGED nonfleet

\* _run_automation, lines 336-347, and _run_campaign, line 444: setup_logger,
\* and in campaign mode self.failed_games = []
FleetWStart(c) ==
    /\ fleet.ctl[c].pc = "start"
    /\ fleet' = IF fleet.ctl[c].campaign_mode
                  THEN [fleet EXCEPT !.ctl[c].logger = TRUE,
                                     !.ctl[c].failed_games = FreshList(c),
                                     !.lists[FreshList(c)] = << >>,
                                     !.ctl[c].pc = "check"]
                  ELSE [fleet EXCEPT !.ctl[c].logger = TRUE,
                                     !.ctl[c].pc = "check"]
    /\ UNCHANGED nonfleet

\* the stop check before a run (383-386, 506-510) and the progress update
\* (388, 512-513)
FleetRunCheck(c) ==
    /\ fleet.ctl[c].pc = "check"
    /\ LET k == fleet.ctl[c]
       IN  fleet' = IF fleet.events[k.stop_event]
                      THEN [fleet EXCEPT !.ctl[c].status = "Stopped",
                                         !.ctl[c].pc = "exit"]
                      ELSE [fleet EXCEPT !.ctl[c].current_run = k.current_run + 1,
                                         !.ctl[c].total_runs = 1,
                                         !.ctl[c].pc = "run"]
    /\ UNCHANGED nonfleet

\* a run ends: it failed (status Failed; in a campaign the entry is appended
\* to self.failed_games and, continue_on_failure being set, the status goes
\* back to Running and the game is left), it was stopped, or it succeeded
FleetRun(c) ==
    /\ fleet.ctl[c].pc = "run"
    /\ LET k == fleet.ctl[c]
       IN  \/ fleet' = IF k.campaign_mode
                         THEN [fleet EXCEPT
                                 !.lists[k.failed_games] =
                                     Append(@, <<c, k.current_run>>),
                                 !.ctl[c].status = "Running",
                                 !.ctl[c].pc = "end"]
                         ELSE [fleet EXCEPT !.ctl[c].status = "Failed",
                                            !.ctl[c].pc = "exit"]
           \/ /\ fleet.events[k.stop_event]
              /\ fleet' = [fleet EXCEPT !.ctl[c].status = "Stopped",
                                        !.ctl[c].pc = "exit"]
           \/ fleet' = [fleet EXCEPT !.ctl[c].pc = "end"]
    /\ UNCHANGED nonfleet

\* lines 428-434, 578-587: Completed unless the status is Failed or Stopped
FleetEnd(c) ==
    /\ fleet.ctl[c].pc = "end"
    /\ fleet' = IF fleet.ctl[c].status \notin {"Failed", "Stopped"}
                  THEN [fleet EXCEPT !.ctl[c].status = "Completed",
                                     !.ctl[c].pc = "exit"]
                  ELSE [fleet EXCEPT !.ctl[c].pc = "exit"]
    /\ UNCHANGED nonfleet

\* the worker thread of controller c ends
FleetExit(c) ==
    /\ fleet.ctl[c].pc = "exit"
    /\ fleet' = [fleet EXCEPT !.ctl[c].pc = "none"]
    /\ UNCHANGED nonfleet

FleetWorker(c) ==
    \/ FleetWStart(c) \/ FleetRunCheck(c) \/ FleetRun(c) \/ FleetEnd(c)
    \/ FleetExit(c)

FleetInit ==
    /\ ControllerIdle
    /\ AgentIdle
    /\ MatchingIdle
    /\ LoggingIdle
    /\ fleet \in { FleetStart(modes) : modes \in [SUTs -> BOOLEAN] }

FleetNext ==
    \/ \E c \in SUTs : StartSut(c)
    \/ \E c \in SUTs : StopSut(c)
    \/ StartAllBegin \/ StartAllStep \/ StopAllBegin \/ StopAllStep
    \/ \E c \in SUTs : FleetWorker(c)

FleetSpec == FleetInit /\ [][FleetNext]_vars

\* the job's worker has finished, and a run of the job failed
EndedAfterFailure ==
    /\ thread # 0
    /\ pc[thread] \in {"exit", "done"}
    /\ Len(FailedRuns) > 0

\* a transport failure sets the status Failed, records the run as failed and
\* leaves the run; no run of a job is made twice
TransportSurfaced ==
    /\ [][\A t \in Threads :
             TransportFailure(t) =>
                /\ status' = "Failed"
                /\ runs' = Append(runs, <<RunGame(t), run_num[t], "failed">>)
                /\ pc'[t] \in {"r_finally", AfterRun}]_vars
    /\ [](\A i, j \in 1..Len(runs) :
             i < j => <<runs[i][1], runs[i][2]>> # <<runs[j][1], runs[j][2]>>)

StartRefused ==
    /\ gui_ret' = <<"start", "False">>
    /\ status' = "Error"
    /\ thread' = thread
    /\ pc' = pc

\* C24 as stated: start_automation with no live worker on a campaign job with
\* no games, or on a single-game job with no launch target (game path), returns
\* False, sets the status to Error and spawns no worker.
C24_EmptyJobRefused ==
    [][(/\ StartAutomation
        /\ ~ThreadIsAlive
        /\ \/ campaign_mode /\ Len(campaign) = 0
           \/ ~campaign_mode /\ game_path = "") => StartRefused]_vars

\* C24 amended: start_automation with no live worker on a campaign job with
\* no games, or on a single-game job with no workflow configuration path,
\* returns False, sets the status to Error and spawns no worker.
C24_EmptyJobAmended ==
    [][(/\ StartAutomation
        /\ ~ThreadIsAlive
        /\ \/ campaign_mode /\ Len(campaign) = 0
           \/ ~campaign_mode /\ config_path = "") => StartRefused]_vars

\* a single-game job with a game path and no configuration path was refused
C24_Witness ==
    /\ ~campaign_mode
    /\ config_path = ""
    /\ game_path = "game"
    /\ gui_ret = <<"start", "False">>
    /\ status = "Error"
    /\ thread = 0

\* the sinks of controller s on the root logger
RootSinks(s) == { h \in logging.root_handlers : h.sut = s }

\* C25: the root logger holds no sink of a controller whose worker has exited
\* (by completion, exception or stop), and at most one sink of a controller
\* whose worker is alive, after any number of start/stop cycles.
C25_NoSinkLeak ==
    \A s \in SUTs :
        /\ logging.pc[s] \in {"idle", "exit"} => RootSinks(s) = {}
        /\ Cardinality(RootSinks(s)) <= 1

\* a controller's second worker has exited after an exception while the
\* other controller's worker runs with its sink attached
C25_Witness ==
    /\ logging.serial[1] = 0
    /\ logging.pc[1] = "exit"
    /\ logging.exit_by[1] = "exception"
    /\ logging.pc[2] = "body"
    /\ RootSinks(2) # {}
    /\ RootSinks(1) = {}

\* C26: a record logged on the worker thread of one SUT reaches no other
\* SUT's log queue, whichever workers run and have their sinks on the root
\* logger.
C26_NoLogMixing ==
    \A q \in SUTs : logging.log_queue[q] \subseteq {q}

\* two workers run with both sinks on the root logger and each log queue
\* holds a record of its own worker
C26_Witness ==
    /\ logging.pc[1] = "body" /\ logging.pc[2] = "body"
    /\ Cardinality(logging.root_handlers) = 2
    /\ logging.log_queue[1] = {1}
    /\ logging.log_queue[2] = {2}

\* C27: from_dict(to_dict(c)) has the run-count and delay, the inter-game
\* delay, the continue-on-failure flag and the campaign games, in order and
\* with their run-counts and delays, of c.
C27_RoundTrip ==
    [][SaveAndLoad =>
          /\ run_count' = run_count
          /\ run_delay' = run_delay
          /\ delay_between_games' = delay_between_games
          /\ continue_on_failure' = continue_on_failure
          /\ Len(campaign') = Len(campaign)
          /\ \A i \in 1..Len(campaign) :
                /\ campaign'[i].game_name = campaign[i].game_name
                /\ campaign'[i].run_count = campaign[i].run_count
                /\ campaign'[i].run_delay = campaign[i].run_delay]_vars

\* a controller with a path that to_dict rewrites, no continue-on-failure and
\* a campaign of two games of different run-counts was saved and loaded
C27_Witness ==
    /\ gui_ret = <<"save_load", "True">>
    /\ config_path = "dir/cfg"
    /\ ~continue_on_failure
    /\ delay_between_games = MaxDelay
    /\ Len(campaign) = 2
    /\ campaign[1].run_count = MaxRuns /\ campaign[2].run_count = 1
    /\ campaign[1].run_delay = MaxDelay

\* the value a load gives the field key of data: the file's, or default
Loaded(data, key, default) == IF key \in DOMAIN data THEN data[key] ELSE default

\* the games of the controller have the run-counts and delays of the game
\* entries games of a file, or 3 and 30 where the entry has none
GamesLoaded(games) ==
    /\ Len(campaign) = Len(games)
    /\ \A i \in 1..Len(games) :
          /\ campaign[i].run_count = Loaded(games[i], "run_count", 3)
          /\ campaign[i].run_delay = Loaded(games[i], "run_delay", 30)

\* C28: loading a SUT, a campaign file or a game entry with any subset of its
\* optional fields missing succeeds and gives every missing field its default:
\* run-count 3, inter-run delay 30, inter-game delay 120, continue-on-failure
\* true; the fields the file has are taken as they are.
C28_MissingFieldDefaults ==
    /\ gui_ret[1] = "load_config" =>
          /\ run_count = Loaded(gui_ret[2], "run_count", 3)
          /\ run_delay = Loaded(gui_ret[2], "run_delay", 30)
          /\ delay_between_games = Loaded(gui_ret[2], "delay_between_games", 120)
          /\ continue_on_failure = Loaded(gui_ret[2], "continue_on_failure", TRUE)
          /\ GamesLoaded(Loaded(gui_ret[2], "campaign", << >>))
    /\ gui_ret[1] = "load_campaign" =>
          /\ delay_between_games = Loaded(gui_ret[2], "delay_between_games", 120)
          /\ continue_on_failure = Loaded(gui_ret[2], "continue_on_failure", TRUE)
          /\ GamesLoaded(Loaded(gui_ret[2], "games", << >>))

\* a SUT was loaded from a file that has its campaign and its run-count but
\* not the other settings, and whose game entry has nothing but its name
C28_Witness ==
    /\ gui_ret[1] = "load_config"
    /\ DOMAIN gui_ret[2] = {"campaign", "run_count"}
    /\ DOMAIN gui_ret[2].campaign[1] = {"game_name"}
    /\ run_count = MaxRuns
    /\ run_delay = 30
    /\ delay_between_games = 120
    /\ continue_on_failure
    /\ Len(campaign) = 1
    /\ campaign[1].game_name = 1
    /\ campaign[1].run_count = 3
    /\ campaign[1].run_delay = 30
    /\ campaign[1].config_path = ""

\* the worker of a single-game job has finished, no stop was requested and
\* nothing failed: the configuration was loaded, so that the job came to its
\* runs, and no run failed or was stopped
SingleJobDone ==
    /\ ~campaign_mode
    /\ thread # 0
    /\ pc[thread] \in {"exit", "done"}
    /\ ~stop_event
    /\ Len(runs) > 0
    /\ \A i \in 1..Len(runs) : runs[i][3] = "ok"

RetryPcs == {"retry_wait", "retry_find"}

ExactMatches ==
    { q.pid : q \in { x \in find_table :
                        SameName(x.name, find_name) \/ SameName(x.exe, find_name) } }

\* C31: the processes /kill_process terminates are only those whose name
\* equals the requested name case-insensitively; the launcher PlayRDR2.exe is
\* not terminated for the target RDR2.exe.
C31_TerminatesExactOnly ==
    find_result[1] = "killed" => find_result[2] \subseteq ExactMatches

\* C32: a kill request the controller has sent for a run that ended Failed or
\* Stopped carries the process name in the field the agent reads, so that the
\* agent answers 200 (status success) and the tracked process id is cleared.
C32_KillRequestAccepted ==
    (kills > 0 /\ LastRunFailedOrStopped) =>
        /\ KillRequestField = "process_name"
        /\ AgentKillStatus(KillRequestField) = 200

\* the steps between the start of a run and its end
InRun(t) == pc[t] \in RunPcs \cup {"r_finally"}

\* C33: while a run is in progress no caller-side operation changes the
\* campaign list the worker iterates or the fields of its entries.
C33_NoEditDuringRun ==
    [][(\E t \in Threads : InRun(t)) =>
           campaign' = campaign /\ campaign_mode' = campaign_mode]_vars

\* the run total start_automation computes (lines 299-304)
CampaignWideTotal == IF campaign_mode THEN SumRunCounts(campaign) ELSE run_count

\* C34: an accepted start_automation clears the stop signal, sets the status
\* to Running, resets current_run, spawns exactly one worker and sets
\* total_runs to the sum of the campaign's run counts (single mode: the
\* controller's run count); total_runs keeps that value while the job runs.
C34_TotalRunsCampaignWide ==
    /\ [][(StartAutomation /\ gui_ret' = <<"start", "True">>) =>
             /\ ~stop_event' /\ status' = "Running" /\ current_run' = 0
             /\ thread' = thread + 1
             /\ \A t \in Threads : Alive(t)' <=> t = thread'
             /\ total_runs' = CampaignWideTotal]_vars
    /\ [](ThreadIsAlive => total_runs = CampaignWideTotal)

\* an operation on controller c: its start, its stop, a step of its worker
OperationOn(c) ==
    \/ StartSut(c) \/ StopSut(c)
    \/ fleet.gui[2] = c /\ (StartAllStep \/ StopAllStep)
    \/ FleetWorker(c)

\* what an observer reads from controller c
Observed(c) ==
    [ status |-> fleet.ctl[c].status,
      current_run |-> fleet.ctl[c].current_run,
      total_runs |-> fleet.ctl[c].total_runs,
      failed_games |-> fleet.lists[fleet.ctl[c].failed_games],
      stop_event |-> fleet.events[fleet.ctl[c].stop_event] ]

\* C35: an operation on one controller never changes another controller's
\* status, run progress, failed-games list or stop signal, and a live worker
\* always has a step it can take whatever the other workers do.
C35_ControllersIndependent ==
    /\ [][\A c \in SUTs : OperationOn(c) =>
              \A o \in SUTs \ {c} : Observed(o)' = Observed(o)]_vars
    /\ [](\A c \in SUTs : WorkerAlive(fleet, c) => ENABLED FleetWorker(c))

\* controller 1 was stopped and its campaign has a failed run on record while
\* the worker of controller 2 is in a run, its stop signal clear
C35_Witness ==
    /\ fleet.ctl[1].status = "Stopped"
    /\ fleet.events[fleet.ctl[1].stop_event]
    /\ Len(fleet.lists[fleet.ctl[1].failed_games]) > 0
    /\ fleet.ctl[2].status = "Running"
    /\ fleet.ctl[2].pc = "run"
    /\ ~fleet.events[fleet.ctl[2].stop_event]
    /\ fleet.lists[fleet.ctl[2].failed_games] = << >>

\* the answers of /launch: success, warning, cancelled, and the errors
LaunchOutcomes == {"success", "warning", "cancelled", "error400", "error404",
                   "error500"}

\* C36: every /launch request returns, with exactly one outcome, and has
\* released game_lock when it has returned: in the end all the requests have
\* returned and the lock is free for a later launch or terminate_game.
C36_LaunchReturnsAndUnlocks ==
    /\ <>[](/\ \A r \in Launches : lpc[r] = "done"
            /\ game_lock = 0
            /\ ENABLED TerminateGame)
    /\ [](\A r \in Launches :
              /\ lpc[r] = "done" => lres[r] \in LaunchOutcomes /\ game_lock # r
              /\ lpc[r] # "done" => lres[r] = "none")
    /\ [][\A r \in Launches : lres[r] # "none" => lres'[r] = lres[r]]_vars

\* a launch was cancelled during a wait, another ended in an internal
\* exception, and the lock is free
C36_Witness ==
    /\ \E r \in Launches : lres[r] = "cancelled"
    /\ \E r \in Launches : lres[r] = "error500"
    /\ \A r \in Launches : lpc[r] = "done"
    /\ game_lock = 0

\* a cancellation was armed while the lock holder was in flight and the
\* holder has neither seen the flag nor been woken by it
ArmedUnobserved ==
    /\ launch_cancel_flag
    /\ game_lock # 0
    /\ cancel_at \notin {"none", "stale", "notified"}

\* C37: a cancellation armed while a launch is in flight stays armed until
\* that launch observes it; no step of another request clears the flag.
C37_CancelStaysArmed ==
    [][ArmedUnobserved => launch_cancel_flag']_vars

\* C38: a stop_automation call that finds the worker thread alive, at whatever
\* point of the worker, does not raise, and has set the stop signal when it
\* returns.
C38_StopNeverRaises ==
    /\ gui_ret # <<"stop", "raised">>
    /\ gui_ret = <<"stop", "True">> => stop_event

\* the statuses of a job that has ended
EndedStatus == {"Completed", "Failed", "Stopped"}

\* C39: the worker of a started job terminates, and when it terminates, and
\* as long as no job is started after it, the status is Completed, Failed or
\* Stopped.
C39_JobEnds ==
    /\ <>[](~ThreadIsAlive)
    /\ [](\A t \in Threads : pc[t] \in {"exit", "done"} => status \in EndedStatus)

\* a job was stopped while its worker was in a run, and its worker has ended
C39_Witness ==
    /\ thread # 0 /\ pc[thread] = "done"
    /\ status = "Stopped"
    /\ Len(runs) > 0 /\ runs[Len(runs)][3] = "stopped"

\* request r carried no process_id and launched its executable directly, the
\* process spawned from it is running, and r makes a lookup of its
\* detection loop
DerivedNameLookup(r) ==
    /\ path_kind[r] = "direct"
    /\ new_process_name[r] = SplitExt(GameExe)
    /\ game_process = r /\ pstate[r] = "running"
    /\ LFind(r)

\* C40: the process name the handler derives from the launch target when the
\* request names none matches the process spawned from that executable: a
\* lookup made while that process runs detects it.
C40_DerivedNameDetected ==
    [][\A r \in Launches :
          DerivedNameLookup(r) => actual_process'[r] # -1 /\ lpc'[r] = "window"]_vars

====
